---- MODULE Spec2Model ----
(***************************************************************************)
(* Interview orchestration engine of services/api: the session registry    *)
(* (SessionManager), the per-session state machine (InterviewState), the   *)
(* WebSocket protocol handler (websocket_interview and its turn            *)
(* processors) and the streaming pipeline (StreamingPipeline).             *)
(*                                                                         *)
(* Spec      the protocol handler over the registry, one connection        *)
(* PipeSpec  one call of StreamingPipeline.process_audio_streaming with    *)
(*           the callbacks that process_audio_turn_streaming defines       *)
(* StateSpec one InterviewState driven through its methods                 *)
(* RegSpec   the SessionManager called directly, in any order              *)
(* SentSpec  one SentenceBuffer fed a text, split into tokens in every way  *)
(***************************************************************************)
EXTENDS Integers, Sequences, FiniteSets, TLC

VARIABLES
    now,                \* datetime.utcnow(), in minutes
    ticks,              \* number of clock advances so far
    sessions,           \* SessionManager._sessions: insertion-ordered dict, <<[k, ref]>>
    heap,               \* the InterviewState objects ever constructed, ref = index
    streaming_enabled,  \* settings.streaming_enabled
    conn,               \* one record per connection: the handler's locals and position
    handled,            \* inbound messages received so far, over all connections
    pp,                 \* the pipeline call: positions, locals, queue, callbacks' locals
    pout,               \* messages the pipeline's callbacks sent to the client
    istate,             \* one InterviewState driven through its methods, and what they returned
    mgr,                \* direct callers of the SessionManager and what it returned to them
    sb                  \* one SentenceBuffer fed a text token by token, and what it returned

vars == <<now, ticks, sessions, heap, streaming_enabled, conn, handled, pp, pout, istate, mgr, sb>>

hvars == <<now, ticks, sessions, heap, streaming_enabled, conn, handled>>

pvars == <<pp, pout>>

uvars == <<istate, mgr, sb>>

(***************************************************************************)
(* Bounds of the model                                                     *)
(***************************************************************************)
MaxMsgs == 3

MaxTicks == 1

MaxTokens == 2

MaxChunks == 1

MaxCalls == 7

MaxCount == 2

MaxCreates == 4

\* The registry's capacity.  state.py sets MAX_SESSIONS = 500; the code uses it
\* only in `len(self._sessions) >= MAX_SESSIONS`, and the model scales it down
\* so that a full registry is reached.
MAX_SESSIONS == 2

(***************************************************************************)
(* Program constants                                                       *)
(***************************************************************************)
SESSION_TTL_MINUTES == 120

DefaultMaxQuestions == 5

None == "None"

\* "no InterviewState": the None of get_session, as a heap reference
NoRef == 0

Conns == {"c1", "c2"}

\* The connection that acts when the handler is studied on its own
Solo == {"c1"}

\* Path session ids as the client writes them.  "u1" and "u2" are canonical
\* UUID texts (lower case, hyphenated); "U1" is the upper-case spelling of
\* u1, which uuid.UUID also accepts; "not-a-uuid" does not parse.
PathIds == {"u1", "U1", "u2", "not-a-uuid"}

\* Session ids the direct callers of the SessionManager create sessions with
ManagerIds == {"u1", "u2", "u3", "u4"}

\* The keys they look up and remove
ManagerKeys == {"u1", "u2"}

\* uuid.UUID(text): the UUID value, or None for ValueError
ParseUUID(text) ==
    CASE text = "u1" -> "uuid1"
      [] text = "U1" -> "uuid1"
      [] text = "u2" -> "uuid2"
      [] text = "u3" -> "uuid3"
      [] text = "u4" -> "uuid4"
      [] OTHER -> None

\* str(uuid): always the canonical lower-case text
StrUUID(u) ==
    CASE u = "uuid1" -> "u1"
      [] u = "uuid2" -> "u2"
      [] u = "uuid3" -> "u3"
      [] u = "uuid4" -> "u4"

_validate_session_id(session_id) == ParseUUID(session_id) # None

phase_order ==
    <<"introduction", "warmup", "main_questions", "follow_up", "wrap_up", "completed">>

PhaseIndex(p) == CHOOSE i \in 1..Len(phase_order) : phase_order[i] = p

(***************************************************************************)
(* InterviewState                                                          *)
(***************************************************************************)
NewInterviewState(uuid, t) ==
    [session_id |-> uuid,
     phase |-> "introduction",
     conversation_history |-> <<>>,
     sequence_number |-> 0,
     questions_asked |-> 0,
     max_questions |-> DefaultMaxQuestions,
     started_at |-> t,
     resume_context |-> "",
     parsed_resume |-> None,
     target_role |-> None,
     current_round |-> 1,
     interview_mode |-> "full",
     current_problem |-> None,
     submitted_code |-> None,
     submitted_language |-> None]

\* add_message without `self.sequence_number += 1`
add_message_NoIncrement(s, role) ==
    [s EXCEPT !.conversation_history =
                  Append(@, IF role = "candidate" THEN "user" ELSE "assistant")]

\* add_message: the state after the call; the returned number is its sequence_number
add_message(s, role) ==
    [s EXCEPT !.conversation_history =
                  Append(@, IF role = "candidate" THEN "user" ELSE "assistant"),
              !.sequence_number = @ + 1]

\* should_wrap_up with > for >=
should_wrap_up_Strict(s) == s.questions_asked > s.max_questions

should_wrap_up(s) == s.questions_asked >= s.max_questions

\* advance_phase that starts over after the last phase
advance_phase_Wraps(s) ==
    LET current_idx == PhaseIndex(s.phase)
    IN [s EXCEPT !.phase = phase_order[(current_idx % Len(phase_order)) + 1]]

advance_phase(s) ==
    LET current_idx == PhaseIndex(s.phase)
    IN IF current_idx < Len(phase_order)
       THEN [s EXCEPT !.phase = phase_order[current_idx + 1]]
       ELSE s

\* RecordReply without the branch that sets the phase to WRAP_UP
RecordReply_NoWrapUp(s) ==
    LET s1 == add_message(s, "interviewer")
        s2 == [s1 EXCEPT !.questions_asked = @ + 1]
    IN IF s2.phase = "introduction" THEN advance_phase(s2)
       ELSE IF s2.phase = "warmup" THEN advance_phase(s2)
       ELSE s2

\* The bookkeeping both turn processors run once the interviewer's reply is known
RecordReply(s) ==
    LET s1 == add_message(s, "interviewer")
        s2 == [s1 EXCEPT !.questions_asked = @ + 1]
    IN IF s2.phase = "introduction" THEN advance_phase(s2)
       ELSE IF s2.phase = "warmup" THEN advance_phase(s2)
       ELSE IF should_wrap_up(s2) /\ s2.phase # "wrap_up"
            THEN [s2 EXCEPT !.phase = "wrap_up"]
       ELSE s2

(***************************************************************************)
(* SessionManager                                                          *)
(***************************************************************************)
_is_expired(s, t) == t - s.started_at > SESSION_TTL_MINUTES

HasKey(reg, key) == \E i \in 1..Len(reg) : reg[i].k = key

RefOf(reg, key) ==
    IF HasKey(reg, key)
    THEN reg[CHOOSE i \in 1..Len(reg) : reg[i].k = key].ref
    ELSE NoRef

DictPop(reg, key) == SelectSeq(reg, LAMBDA e : e.k # key)

DictSet(reg, key, ref) ==
    IF HasKey(reg, key)
    THEN [i \in 1..Len(reg) |-> IF reg[i].k = key THEN [k |-> key, ref |-> ref] ELSE reg[i]]
    ELSE Append(reg, [k |-> key, ref |-> ref])

\* max for min: the last entry, in dict order, of greatest started_at
OldestIndex_Newest(reg, hp) ==
    CHOOSE i \in 1..Len(reg) :
        /\ \A j \in 1..Len(reg) : hp[reg[i].ref].started_at >= hp[reg[j].ref].started_at
        /\ \A j \in (i + 1)..Len(reg) : hp[reg[j].ref].started_at < hp[reg[i].ref].started_at

\* min(self._sessions, key=started_at): the first entry, in dict order, of least started_at
OldestIndex(reg, hp) ==
    CHOOSE i \in 1..Len(reg) :
        /\ \A j \in 1..Len(reg) : hp[reg[i].ref].started_at <= hp[reg[j].ref].started_at
        /\ \A j \in 1..(i - 1) : hp[reg[j].ref].started_at > hp[reg[i].ref].started_at

RECURSIVE EvictOldest(_, _)
EvictOldest(reg, hp) ==
    IF Len(reg) >= MAX_SESSIONS
    THEN EvictOldest(DictPop(reg, reg[OldestIndex(reg, hp)].k), hp)
    ELSE reg

\* create_session without the `while len(self._sessions) >= MAX_SESSIONS` loop
create_session_NoEviction(reg, hp, session_id, t) ==
    LET swept == SelectSeq(reg, LAMBDA e : ~_is_expired(hp[e.ref], t))
    IN DictSet(swept, StrUUID(ParseUUID(session_id)), Len(hp) + 1)

\* create_session without the sweep of the expired sessions
create_session_NoSweep(reg, hp, session_id, t) ==
    DictSet(EvictOldest(reg, hp), StrUUID(ParseUUID(session_id)), Len(hp) + 1)

\* create_session: the registry after the call; the new object is heap entry Len(hp) + 1
create_session(reg, hp, session_id, t) ==
    LET swept == SelectSeq(reg, LAMBDA e : ~_is_expired(hp[e.ref], t))
        room == EvictOldest(swept, hp)
    IN DictSet(room, StrUUID(ParseUUID(session_id)), Len(hp) + 1)

\* get_session without `self._sessions.pop(session_id, None)`
get_session_NoEvict(reg, hp, session_id, t) ==
    LET ref == RefOf(reg, session_id)
    IN IF ref # NoRef /\ _is_expired(hp[ref], t)
       THEN [state |-> NoRef, reg |-> reg]
       ELSE [state |-> ref, reg |-> reg]

\* get_session: the returned state (a ref or NoRef) and the registry after the lazy eviction
get_session(reg, hp, session_id, t) ==
    LET ref == RefOf(reg, session_id)
    IN IF ref # NoRef /\ _is_expired(hp[ref], t)
       THEN [state |-> NoRef, reg |-> DictPop(reg, session_id)]
       ELSE [state |-> ref, reg |-> reg]

remove_session(reg, session_id) == DictPop(reg, session_id)

(***************************************************************************)
(* Protocol messages                                                       *)
(***************************************************************************)
MAX_AUDIO_DATA_BYTES == 10485760

MAX_CODE_LENGTH == 50000

ALLOWED_LANGUAGES ==
    {"python", "javascript", "typescript", "java", "c", "cpp", "c++",
     "csharp", "c#", "go", "rust", "ruby", "swift", "kotlin", "scala",
     "php", "r", "sql"}

\* the language fields a client writes here
Languages == {"python", "Python", "brainfuck"}

\* str.lower() on those
Lower(language) == IF language = "Python" THEN "python" ELSE language

\* an outbound message: type, main field, the recoverable flag of an error, sequence
Msg(t, a) == [t |-> t, a |-> a, r |-> TRUE, n |-> 0]

SeqMsg(t, a, n) == [t |-> t, a |-> a, r |-> TRUE, n |-> n]

ErrorMessage(code, recoverable) == [t |-> "error", a |-> code, r |-> recoverable, n |-> 0]

Ready == Msg("status", "ready")

\* _ws_error_response: the messages it sends
_ws_error_response(code, recoverable, set_ready) ==
    <<ErrorMessage(code, recoverable)>> \o (IF set_ready THEN <<Ready>> ELSE <<>>)

IsFatal(m) == m.t = "error" /\ ~m.r

(***************************************************************************)
(* The connection record: the locals of websocket_interview and of the     *)
(* turn processor it is awaiting, and what the client has observed         *)
(***************************************************************************)
NoTurn == [kind |-> "-", speech |-> FALSE, found |-> FALSE, streaming |-> FALSE,
           stt |-> "-", llm |-> "-", tts |-> "-", ov |-> "-",
           size |-> 0, language |-> "-",
           at |-> 0]             \* the time at which the message was received

NewConn ==
    [pc |-> "idle",              \* idle, loop, stt, llm, tts, si_llm, si_tts, eval, code_eval,
                                 \* rejected (closed before the loop), done (handler returned)
     session_id |-> None,        \* the path parameter, as written by the client
     state |-> NoRef,            \* websocket_interview's local `state`
     tstate |-> NoRef,           \* the turn processor's local `state`
     interview_started |-> FALSE,
     intro |-> "-",              \* how start_interview() ended: ok, failed, skipped (no session)
     accepted |-> FALSE,         \* session_started was sent
     removed |-> FALSE,          \* the finally block has run
     log |-> <<>>,               \* messages sent since the last inbound message
     cur |-> NoTurn,             \* the inbound message being handled and what happened to it
     afterUnknown |-> FALSE,     \* the inbound message before it had an unrecognized type
     fatal |-> FALSE,            \* an error with recoverable=false was sent
     afterFatal |-> FALSE]       \* something was sent, or received, after such an error

\* send_message for each of msgs, in order
Emit(cr, msgs) ==
    [cr EXCEPT
        !.log = @ \o msgs,
        !.fatal = @ \/ \E i \in 1..Len(msgs) : IsFatal(msgs[i]),
        !.afterFatal = @ \/ (cr.fatal /\ msgs # <<>>)
                         \/ \E i \in 1..Len(msgs) : IsFatal(msgs[i]) /\ i < Len(msgs)]

\* websocket.receive_text() returned: a new inbound message is being handled
Begin(cr, turn) ==
    [cr EXCEPT !.log = <<>>, !.cur = [turn EXCEPT !.at = now],
               !.afterUnknown = cr.cur.kind = "unknown",
               !.afterFatal = @ \/ cr.fatal]

Turn(kind) == [NoTurn EXCEPT !.kind = kind]

\* The finally block of websocket_interview
Cleanup(cr, reg) == remove_session(reg, cr.session_id)

\* The handler leaves the loop: except clauses, then finally
Exit(c, cr, reg) ==
    /\ conn' = [conn EXCEPT ![c] = [cr EXCEPT !.pc = "done", !.removed = TRUE]]
    /\ sessions' = Cleanup(cr, reg)

\* A step that sends msgs and then continues at pc.  If the client has dropped
\* the connection meanwhile, the first send raises, the error notification of
\* the turn processor raises as well, and the exception reaches the loop's
\* handlers.
SendThen(c, cr, reg, msgs, pc, dropped) ==
    IF ~dropped
    THEN /\ conn' = [conn EXCEPT ![c] = [Emit(cr, msgs) EXCEPT !.pc = pc]]
         /\ sessions' = reg
    ELSE Exit(c, cr, reg)

CanReceive(c) ==
    /\ conn[c].pc = "loop"
    /\ handled < MaxMsgs

(***************************************************************************)
(* websocket_interview: connection set-up                                  *)
(***************************************************************************)
Tokens == {"", "valid", "invalid"}

\* verify_token_or_none: a principal, or None
verify_token_or_none(token) == IF token = "valid" THEN "user" ELSE None

\* The token checked only after the session was created or fetched
ConnectRejectAuth_AfterCreate(c, sid, token) ==
    /\ conn[c].pc = "idle"
    /\ token # "" /\ verify_token_or_none(token) = None
    /\ LET got == get_session(sessions, heap, sid, now)
           fresh == _validate_session_id(sid) /\ got.state = NoRef
       IN /\ sessions' = IF fresh THEN create_session(got.reg, heap, sid, now) ELSE got.reg
          /\ heap' = IF fresh
                     THEN Append(heap, NewInterviewState(ParseUUID(sid), now))
                     ELSE heap
    /\ conn' = [conn EXCEPT ![c] =
                   [Emit([@ EXCEPT !.session_id = sid],
                         _ws_error_response("AUTH_FAILED", FALSE, FALSE))
                       EXCEPT !.pc = "rejected"]]
    /\ UNCHANGED <<now, ticks, streaming_enabled, handled, pp, pout, istate, mgr, sb>>

\* A supplied token that does not verify: AUTH_FAILED, close(1008), return
ConnectRejectAuth(c, sid, token) ==
    /\ conn[c].pc = "idle"
    /\ token # "" /\ verify_token_or_none(token) = None
    /\ conn' = [conn EXCEPT ![c] =
                   [Emit([@ EXCEPT !.session_id = sid],
                         _ws_error_response("AUTH_FAILED", FALSE, FALSE))
                       EXCEPT !.pc = "rejected"]]
    /\ UNCHANGED <<now, ticks, sessions, heap, streaming_enabled, handled, pp, pout, istate, mgr, sb>>

\* A path id that is not a UUID: INVALID_SESSION_ID, close(1008), return
ConnectRejectId(c, sid, token) ==
    /\ conn[c].pc = "idle"
    /\ ~(token # "" /\ verify_token_or_none(token) = None)
    /\ ~_validate_session_id(sid)
    /\ conn' = [conn EXCEPT ![c] =
                   [Emit([@ EXCEPT !.session_id = sid],
                         _ws_error_response("INVALID_SESSION_ID", FALSE, FALSE))
                       EXCEPT !.pc = "rejected"]]
    /\ UNCHANGED <<now, ticks, sessions, heap, streaming_enabled, handled, pp, pout, istate, mgr, sb>>

\* Create or get the session, send session_started, enter the receive loop
ConnectAccept(c, sid, token) ==
    /\ conn[c].pc = "idle"
    /\ ~(token # "" /\ verify_token_or_none(token) = None)
    /\ _validate_session_id(sid)
    /\ LET got == get_session(sessions, heap, sid, now)
           fresh == got.state = NoRef
           ref == IF fresh THEN Len(heap) + 1 ELSE got.state
       IN /\ sessions' = IF fresh THEN create_session(got.reg, heap, sid, now) ELSE got.reg
          /\ heap' = IF fresh
                     THEN Append(heap, NewInterviewState(ParseUUID(sid), now))
                     ELSE heap
          /\ conn' = [conn EXCEPT ![c] =
                         [Emit([@ EXCEPT !.session_id = sid, !.state = ref],
                               <<Msg("session_started", StrUUID(heap'[ref].session_id))>>)
                             EXCEPT !.pc = "loop", !.accepted = TRUE]]
    /\ UNCHANGED <<now, ticks, streaming_enabled, handled, pp, pout, istate, mgr, sb>>

(***************************************************************************)
(* The client and the clock                                                *)
(***************************************************************************)
\* The client drops the connection while the handler waits in receive_text,
\* which raises WebSocketDisconnect.  (A drop during a turn is the `dropped`
\* case of the step that sends next.)
ReceiveDisconnected(c) ==
    /\ conn[c].pc = "loop"
    /\ Exit(c, conn[c], sessions)
    /\ UNCHANGED <<now, ticks, heap, streaming_enabled, handled, pp, pout, istate, mgr, sb>>

Tick(d) ==
    /\ ticks < MaxTicks
    /\ ticks' = ticks + 1
    /\ now' = now + d
    /\ UNCHANGED <<sessions, heap, streaming_enabled, conn, handled, pp, pout, istate, mgr, sb>>

(***************************************************************************)
(* websocket_interview: the receive loop, messages without a provider call *)
(***************************************************************************)
\* Text that json.loads rejects, or JSON that is not an object (message.get
\* raises AttributeError): the loop's `except Exception` sends WEBSOCKET_ERROR
\* and the handler ends.
RecvMalformed(c, kind) ==
    /\ CanReceive(c)
    /\ handled' = handled + 1
    /\ Exit(c, Emit(Begin(conn[c], Turn("malformed")),
                    _ws_error_response("WEBSOCKET_ERROR", FALSE, FALSE)), sessions)
    /\ UNCHANGED <<now, ticks, heap, streaming_enabled, pp, pout, istate, mgr, sb>>

\* An unmatched type answered with an error
RecvUnknown_Answers(c) ==
    /\ CanReceive(c)
    /\ handled' = handled + 1
    /\ conn' = [conn EXCEPT ![c] =
                   Emit(Begin(@, Turn("unknown")),
                        _ws_error_response("UNKNOWN_MESSAGE_TYPE", TRUE, TRUE))]
    /\ UNCHANGED <<now, ticks, sessions, heap, streaming_enabled, pp, pout, istate, mgr, sb>>

\* A type no branch of the if/elif chain matches
RecvUnknown(c) ==
    /\ CanReceive(c)
    /\ handled' = handled + 1
    /\ conn' = [conn EXCEPT ![c] = Begin(@, Turn("unknown"))]
    /\ UNCHANGED <<now, ticks, sessions, heap, streaming_enabled, pp, pout, istate, mgr, sb>>

\* The candidates whose resume a resume_context message can carry
Resumes == {"ada", "bob"}

\* resume_context: parsed_resume that validates ("valid"), that does not but
\* carries raw_text ("raw"), that does neither ("junk"), or none at all
\* ("absent"); resume is the candidate a valid payload describes
RecvResumeContext(c, variant, resume) ==
    /\ CanReceive(c)
    /\ handled' = handled + 1
    /\ conn' = [conn EXCEPT ![c] = Begin(@, Turn("resume_context"))]
    /\ heap' = [heap EXCEPT ![conn[c].state] =
                   CASE variant = "valid" -> [@ EXCEPT !.parsed_resume = resume]
                     [] variant = "raw" -> [@ EXCEPT !.resume_context = "raw_text"]
                     [] OTHER -> @]
    /\ UNCHANGED <<now, ticks, sessions, streaming_enabled, pp, pout, istate, mgr, sb>>

RecvPlaybackComplete(c) ==
    /\ CanReceive(c)
    /\ handled' = handled + 1
    /\ conn' = [conn EXCEPT ![c] = Emit(Begin(@, Turn("playback_complete")), <<Ready>>)]
    /\ UNCHANGED <<now, ticks, sessions, heap, streaming_enabled, pp, pout, istate, mgr, sb>>

\* request_problem: select_problem_for_candidate returns a problem or raises
RecvRequestProblem(c, ok) ==
    /\ CanReceive(c)
    /\ handled' = handled + 1
    /\ heap' = IF ok THEN [heap EXCEPT ![conn[c].state].current_problem = "problem"] ELSE heap
    /\ conn' = [conn EXCEPT ![c] =
                   Emit(Begin(@, Turn("request_problem")),
                        IF ok THEN <<Msg("problem", "problem")>>
                        ELSE _ws_error_response("PROBLEM_SELECTION_ERROR", TRUE, TRUE))]
    /\ UNCHANGED <<now, ticks, sessions, streaming_enabled, pp, pout, istate, mgr, sb>>

\* end_session: session_ended, break, finally
RecvEndSession(c) ==
    /\ CanReceive(c)
    /\ handled' = handled + 1
    /\ Exit(c, Emit(Begin(conn[c], Turn("end_session")),
                    <<SeqMsg("session_ended", conn[c].session_id,
                             heap[conn[c].state].sequence_number)>>), sessions)
    /\ UNCHANGED <<now, ticks, heap, streaming_enabled, pp, pout, istate, mgr, sb>>

\* code_submission that stores the submission before it looks for the problem
RecvCodeSubmission_StoresFirst(c, length, language) ==
    /\ CanReceive(c)
    /\ handled' = handled + 1
    /\ LET cr == Begin(conn[c], [Turn("code_submission") EXCEPT !.size = length,
                                                                !.language = language])
           state == heap[conn[c].state]
       IN IF length > MAX_CODE_LENGTH
          THEN /\ conn' = [conn EXCEPT ![c] =
                              Emit([cr EXCEPT !.cur.kind = "code_too_large"],
                                   _ws_error_response("CODE_TOO_LARGE", TRUE, TRUE))]
               /\ UNCHANGED heap
          ELSE IF Lower(language) \notin ALLOWED_LANGUAGES
          THEN /\ conn' = [conn EXCEPT ![c] =
                              Emit([cr EXCEPT !.cur.kind = "invalid_language"],
                                   _ws_error_response("INVALID_LANGUAGE", TRUE, TRUE))]
               /\ UNCHANGED heap
          ELSE IF state.current_problem = None
          THEN /\ conn' = [conn EXCEPT ![c] =
                              Emit([cr EXCEPT !.cur.kind = "no_problem"],
                                   _ws_error_response("NO_PROBLEM", TRUE, TRUE))]
               /\ heap' = [heap EXCEPT ![conn[c].state] =
                              [@ EXCEPT !.submitted_code = "code",
                                        !.submitted_language = language]]
          ELSE /\ heap' = [heap EXCEPT ![conn[c].state] =
                              [@ EXCEPT !.submitted_code = "code",
                                        !.submitted_language = language]]
               /\ conn' = [conn EXCEPT ![c] =
                              [Emit(cr, <<Msg("status", "generating")>>)
                                  EXCEPT !.pc = "code_eval"]]
    /\ UNCHANGED <<now, ticks, sessions, streaming_enabled, pp, pout, istate, mgr, sb>>

\* code_submission with `len(code) >= MAX_CODE_LENGTH`
RecvCodeSubmission_CeilingRejected(c, length, language) ==
    /\ CanReceive(c)
    /\ handled' = handled + 1
    /\ LET cr == Begin(conn[c], [Turn("code_submission") EXCEPT !.size = length,
                                                                !.language = language])
           state == heap[conn[c].state]
       IN IF length >= MAX_CODE_LENGTH
          THEN /\ conn' = [conn EXCEPT ![c] =
                              Emit([cr EXCEPT !.cur.kind = "code_too_large"],
                                   _ws_error_response("CODE_TOO_LARGE", TRUE, TRUE))]
               /\ UNCHANGED heap
          ELSE IF Lower(language) \notin ALLOWED_LANGUAGES
          THEN /\ conn' = [conn EXCEPT ![c] =
                              Emit([cr EXCEPT !.cur.kind = "invalid_language"],
                                   _ws_error_response("INVALID_LANGUAGE", TRUE, TRUE))]
               /\ UNCHANGED heap
          ELSE IF state.current_problem = None
          THEN /\ conn' = [conn EXCEPT ![c] =
                              Emit([cr EXCEPT !.cur.kind = "no_problem"],
                                   _ws_error_response("NO_PROBLEM", TRUE, TRUE))]
               /\ UNCHANGED heap
          ELSE /\ heap' = [heap EXCEPT ![conn[c].state] =
                              [@ EXCEPT !.submitted_code = "code",
                                        !.submitted_language = language]]
               /\ conn' = [conn EXCEPT ![c] =
                              [Emit(cr, <<Msg("status", "generating")>>)
                                  EXCEPT !.pc = "code_eval"]]
    /\ UNCHANGED <<now, ticks, sessions, streaming_enabled, pp, pout, istate, mgr, sb>>

\* code_submission: the three validations, then the evaluation is awaited
RecvCodeSubmission(c, length, language) ==
    /\ CanReceive(c)
    /\ handled' = handled + 1
    /\ LET cr == Begin(conn[c], [Turn("code_submission") EXCEPT !.size = length,
                                                                !.language = language])
           state == heap[conn[c].state]
       IN IF length > MAX_CODE_LENGTH
          THEN /\ conn' = [conn EXCEPT ![c] =
                              Emit([cr EXCEPT !.cur.kind = "code_too_large"],
                                   _ws_error_response("CODE_TOO_LARGE", TRUE, TRUE))]
               /\ UNCHANGED heap
          ELSE IF Lower(language) \notin ALLOWED_LANGUAGES
          THEN /\ conn' = [conn EXCEPT ![c] =
                              Emit([cr EXCEPT !.cur.kind = "invalid_language"],
                                   _ws_error_response("INVALID_LANGUAGE", TRUE, TRUE))]
               /\ UNCHANGED heap
          ELSE IF state.current_problem = None
          THEN /\ conn' = [conn EXCEPT ![c] =
                              Emit([cr EXCEPT !.cur.kind = "no_problem"],
                                   _ws_error_response("NO_PROBLEM", TRUE, TRUE))]
               /\ UNCHANGED heap
          ELSE /\ heap' = [heap EXCEPT ![conn[c].state] =
                              [@ EXCEPT !.submitted_code = "code",
                                        !.submitted_language = language]]
               /\ conn' = [conn EXCEPT ![c] =
                              [Emit(cr, <<Msg("status", "generating")>>)
                                  EXCEPT !.pc = "code_eval"]]
    /\ UNCHANGED <<now, ticks, sessions, streaming_enabled, pp, pout, istate, mgr, sb>>

\* evaluate_code returned or raised: a code_evaluation either way, then ready
CodeEvalDone(c, ok, dropped) ==
    /\ conn[c].pc = "code_eval"
    /\ SendThen(c, conn[c], sessions,
                <<Msg("code_evaluation", IF ok THEN "result" ELSE "failed"), Ready>>, "loop", dropped)
    /\ UNCHANGED <<now, ticks, heap, streaming_enabled, handled, pp, pout, istate, mgr, sb>>

\* request_evaluation: status(generating), then evaluate_interview is awaited
RecvRequestEvaluation(c) ==
    /\ CanReceive(c)
    /\ handled' = handled + 1
    /\ conn' = [conn EXCEPT ![c] =
                   [Emit(Begin(@, Turn("request_evaluation")), <<Msg("status", "generating")>>)
                       EXCEPT !.pc = "eval"]]
    /\ UNCHANGED <<now, ticks, sessions, heap, streaming_enabled, pp, pout, istate, mgr, sb>>

\* evaluate_interview returned or raised: an evaluation either way, then ready
EvaluationDone(c, ok, dropped) ==
    /\ conn[c].pc = "eval"
    /\ SendThen(c, conn[c], sessions,
                <<Msg("evaluation", IF ok THEN "result" ELSE "failed"), Ready>>, "loop", dropped)
    /\ UNCHANGED <<now, ticks, heap, streaming_enabled, handled, pp, pout, istate, mgr, sb>>

(***************************************************************************)
(* start_interview                                                         *)
(***************************************************************************)
\* The optional role, round and mode of a start_interview message: none of
\* them, all of them, or all of them with a round that int() rejects
Overrides == {"none", "all", "bad_round"}

\* A repeated start_interview that stores the overrides it carries
RecvStartInterviewAgain_Applies(c, ov) ==
    /\ CanReceive(c)
    /\ conn[c].interview_started
    /\ handled' = handled + 1
    /\ conn' = [conn EXCEPT ![c] =
                   Begin(@, [Turn("start_interview_again") EXCEPT !.ov = ov])]
    /\ heap' = IF ov = "none"
               THEN heap
               ELSE [heap EXCEPT ![conn[c].state].target_role = "other role"]
    /\ UNCHANGED <<now, ticks, sessions, streaming_enabled, pp, pout, istate, mgr, sb>>

\* A repeated start_interview: `if not interview_started` fails and the branch
\* does nothing, whatever the message carries
RecvStartInterviewAgain(c, ov) ==
    /\ CanReceive(c)
    /\ conn[c].interview_started
    /\ handled' = handled + 1
    /\ conn' = [conn EXCEPT ![c] =
                   Begin(@, [Turn("start_interview_again") EXCEPT !.ov = ov])]
    /\ UNCHANGED <<now, ticks, sessions, heap, streaming_enabled, pp, pout, istate, mgr, sb>>

\* The first start_interview: overrides, then start_interview() up to its LLM call
RecvStartInterview(c, ov) ==
    /\ CanReceive(c)
    /\ ~conn[c].interview_started
    /\ handled' = handled + 1
    /\ LET cr == [Begin(conn[c], [Turn("start_interview") EXCEPT !.ov = ov])
                     EXCEPT !.interview_started = TRUE]
           ref == conn[c].state
       IN IF ov = "bad_round"
          THEN \* role is stored, int(round) raises ValueError into the loop's handler
               /\ heap' = [heap EXCEPT ![ref].target_role = "role"]
               /\ Exit(c, Emit(cr, _ws_error_response("WEBSOCKET_ERROR", FALSE, FALSE)),
                       sessions)
          ELSE /\ heap' = IF ov = "all"
                          THEN [heap EXCEPT ![ref] = [@ EXCEPT !.target_role = "role",
                                                               !.current_round = 2,
                                                               !.interview_mode = "coding"]]
                          ELSE heap
               /\ LET got == get_session(sessions, heap, cr.session_id, now)
                  IN /\ sessions' = got.reg
                     /\ conn' = [conn EXCEPT ![c] =
                            IF got.state = NoRef
                            THEN \* start_interview returns at once; the loop sends ready
                                 Emit([cr EXCEPT !.tstate = NoRef, !.intro = "skipped"],
                                      <<Ready>>)
                            ELSE [Emit([cr EXCEPT !.tstate = got.state, !.cur.found = TRUE],
                                       <<Msg("status", "generating")>>)
                                     EXCEPT !.pc = "si_llm"]]
    /\ UNCHANGED <<now, ticks, streaming_enabled, pp, pout, istate, mgr, sb>>

\* The messages of a failed start_interview(): its except clause, then the
\* ready that the loop sends after start_interview() returns
StartFailure == _ws_error_response("START_ERROR", FALSE, FALSE) \o <<Ready>>

\* llm_client.generate returned or raised
StartInterviewLLM(c, ok, dropped) ==
    /\ conn[c].pc = "si_llm"
    /\ LET ref == conn[c].tstate
           cr == [conn[c] EXCEPT !.cur.llm = IF ok THEN "ok" ELSE "fail"]
       IN IF ok
          THEN /\ heap' = [heap EXCEPT ![ref] = add_message(@, "interviewer")]
               /\ SendThen(c, cr, sessions,
                           <<SeqMsg("transcript", "interviewer", heap'[ref].sequence_number),
                             Msg("status", "speaking")>>, "si_tts", dropped)
          ELSE /\ UNCHANGED heap
               /\ SendThen(c, [cr EXCEPT !.intro = "failed"], sessions,
                           StartFailure, "loop", dropped)
    /\ UNCHANGED <<now, ticks, streaming_enabled, handled, pp, pout, istate, mgr, sb>>

\* tts_client.synthesize returned or raised
StartInterviewTTS(c, ok, dropped) ==
    /\ conn[c].pc = "si_tts"
    /\ LET cr == [conn[c] EXCEPT !.cur.tts = IF ok THEN "ok" ELSE "fail"]
       IN SendThen(c, [cr EXCEPT !.intro = IF ok THEN "ok" ELSE "failed"], sessions,
                   IF ok THEN <<Msg("audio", "mp3"), Ready>> ELSE StartFailure,
                   "loop", dropped)
    /\ UNCHANGED <<now, ticks, heap, streaming_enabled, handled, pp, pout, istate, mgr, sb>>

(***************************************************************************)
(* audio: process_audio_turn (batch) and process_audio_turn_streaming      *)
(***************************************************************************)
AudioSizes == {MAX_AUDIO_DATA_BYTES, MAX_AUDIO_DATA_BYTES + 1}

\* The keyword arguments of the call at ws_interview.py:310 and the parameters
\* (none has a default) of StreamingPipeline.process_audio_streaming
CallKeywords ==
    {"audio_data", "messages", "build_system_prompt",
     "on_transcript", "on_llm_text", "on_audio_chunk"}

PipelineParameters ==
    {"audio_data", "messages", "system_prompt",
     "on_transcript", "on_llm_text", "on_audio_chunk"}

\* Python binds the call only if every keyword names a parameter and every
\* parameter without default is given; otherwise the call raises TypeError
\* before the coroutine is created.
PipelineCallBinds == CallKeywords = PipelineParameters

AudioTurn(size, speech, streaming) ==
    [Turn("audio") EXCEPT !.speech = speech, !.streaming = streaming, !.size = size]

\* The size check with `len(audio_data) >= MAX_AUDIO_DATA_BYTES`
RecvAudioTooLarge_AtCeiling(c, size, speech) ==
    /\ CanReceive(c)
    /\ size >= MAX_AUDIO_DATA_BYTES
    /\ handled' = handled + 1
    /\ conn' = [conn EXCEPT ![c] =
                   Emit(Begin(@, [Turn("audio_too_large") EXCEPT !.size = size]),
                        _ws_error_response("AUDIO_TOO_LARGE", TRUE, TRUE))]
    /\ UNCHANGED <<now, ticks, sessions, heap, streaming_enabled, pp, pout, istate, mgr, sb>>

\* audio whose data is longer than MAX_AUDIO_DATA_BYTES: the error, and `continue`
RecvAudioTooLarge(c, size, speech) ==
    /\ CanReceive(c)
    /\ size > MAX_AUDIO_DATA_BYTES
    /\ handled' = handled + 1
    /\ conn' = [conn EXCEPT ![c] =
                   Emit(Begin(@, [Turn("audio_too_large") EXCEPT !.size = size]),
                        _ws_error_response("AUDIO_TOO_LARGE", TRUE, TRUE))]
    /\ UNCHANGED <<now, ticks, sessions, heap, streaming_enabled, pp, pout, istate, mgr, sb>>

\* The messages of a turn whose session get_session does not return, in either
\* turn processor: the error, then the ready the loop sends after every turn
SessionNotFound == _ws_error_response("SESSION_NOT_FOUND", FALSE, FALSE) \o <<Ready>>

\* process_audio_turn up to its transcription call
RecvAudioBatch(c, size, speech) ==
    /\ CanReceive(c)
    /\ ~(size > MAX_AUDIO_DATA_BYTES)
    /\ ~streaming_enabled
    /\ handled' = handled + 1
    /\ LET cr == Begin(conn[c], AudioTurn(size, speech, FALSE))
           got == get_session(sessions, heap, cr.session_id, now)
       IN /\ sessions' = got.reg
          /\ conn' = [conn EXCEPT ![c] =
                 IF got.state = NoRef
                 THEN Emit([cr EXCEPT !.tstate = NoRef], SessionNotFound)
                 ELSE [Emit([cr EXCEPT !.tstate = got.state, !.cur.found = TRUE],
                            <<Msg("status", "processing_stt")>>)
                          EXCEPT !.pc = "stt"]]
    /\ UNCHANGED <<now, ticks, heap, streaming_enabled, pp, pout, istate, mgr, sb>>

\* What transcription can give for the audio of the turn: text for speech,
\* empty text for silence, or an exception
STTOutcomes(speech) == IF speech THEN {"text", "fail"} ELSE {"empty", "fail"}

\* The messages of a failed batch turn: the except clause, then the loop's ready
BatchFailure == _ws_error_response("PROCESSING_ERROR", TRUE, TRUE) \o <<Ready>>

\* After transcription: the candidate's transcript, then the generation stage
BatchTranscribed(seq) ==
    <<SeqMsg("transcript", "candidate", seq), Msg("status", "generating")>>

\* After generation: the interviewer's transcript, then the synthesis stage
BatchGenerated(seq) ==
    <<SeqMsg("transcript", "interviewer", seq), Msg("status", "speaking")>>

\* After synthesis: the audio; the turn returns and the loop sends ready
BatchSynthesized == <<Msg("audio", "mp3"), Ready>>

\* stt_client.transcribe returned or raised
BatchSTT(c, outcome, dropped) ==
    /\ conn[c].pc = "stt"
    /\ outcome \in STTOutcomes(conn[c].cur.speech)
    /\ LET ref == conn[c].tstate
           cr == [conn[c] EXCEPT !.cur.stt = outcome]
       IN CASE outcome = "text" ->
                 /\ heap' = [heap EXCEPT ![ref] = add_message(@, "candidate")]
                 /\ SendThen(c, cr, sessions,
                             BatchTranscribed(heap'[ref].sequence_number), "llm", dropped)
            [] outcome = "empty" ->
                 /\ UNCHANGED heap
                 /\ SendThen(c, cr, sessions,
                             _ws_error_response("EMPTY_TRANSCRIPTION", TRUE, TRUE) \o <<Ready>>,
                             "loop", dropped)
            [] OTHER ->
                 /\ UNCHANGED heap
                 /\ SendThen(c, cr, sessions, BatchFailure, "loop", dropped)
    /\ UNCHANGED <<now, ticks, streaming_enabled, handled, pp, pout, istate, mgr, sb>>

\* llm_client.generate returned or raised
BatchLLM(c, ok, dropped) ==
    /\ conn[c].pc = "llm"
    /\ LET ref == conn[c].tstate
           cr == [conn[c] EXCEPT !.cur.llm = IF ok THEN "ok" ELSE "fail"]
       IN IF ok
          THEN /\ heap' = [heap EXCEPT ![ref] = RecordReply(@)]
               /\ SendThen(c, cr, sessions,
                           BatchGenerated(heap'[ref].sequence_number), "tts", dropped)
          ELSE /\ UNCHANGED heap
               /\ SendThen(c, cr, sessions, BatchFailure, "loop", dropped)
    /\ UNCHANGED <<now, ticks, streaming_enabled, handled, pp, pout, istate, mgr, sb>>

\* tts_client.synthesize returned or raised
BatchTTS(c, ok, dropped) ==
    /\ conn[c].pc = "tts"
    /\ LET cr == [conn[c] EXCEPT !.cur.tts = IF ok THEN "ok" ELSE "fail"]
       IN SendThen(c, cr, sessions,
                   IF ok THEN BatchSynthesized ELSE BatchFailure, "loop", dropped)
    /\ UNCHANGED <<now, ticks, heap, streaming_enabled, handled, pp, pout, istate, mgr, sb>>

\* StreamingFailure with the error marked as not recoverable
StreamingFailure_Fatal == _ws_error_response("STREAMING_ERROR", FALSE, TRUE) \o <<Ready>>

\* The messages of a streaming turn whose try block raised
StreamingFailure == _ws_error_response("STREAMING_ERROR", TRUE, TRUE) \o <<Ready>>

\* process_audio_turn_streaming.  With the session found it announces the
\* transcription stage and calls the pipeline; that call does not bind
\* (PipelineCallBinds), so the TypeError goes to `except Exception`.
RecvAudioStreaming(c, size, speech) ==
    /\ CanReceive(c)
    /\ ~(size > MAX_AUDIO_DATA_BYTES)
    /\ streaming_enabled
    /\ ~PipelineCallBinds
    /\ handled' = handled + 1
    /\ LET cr == Begin(conn[c], AudioTurn(size, speech, TRUE))
           got == get_session(sessions, heap, cr.session_id, now)
       IN /\ sessions' = got.reg
          /\ conn' = [conn EXCEPT ![c] =
                 IF got.state = NoRef
                 THEN Emit([cr EXCEPT !.tstate = NoRef], SessionNotFound)
                 ELSE Emit([cr EXCEPT !.tstate = got.state, !.cur.found = TRUE],
                           <<Msg("streaming_status", "transcribing")>> \o StreamingFailure)]
    /\ UNCHANGED <<now, ticks, heap, streaming_enabled, pp, pout, istate, mgr, sb>>

(***************************************************************************)
(* The protocol handler as a system                                        *)
(***************************************************************************)
HInit ==
    /\ now = 0
    /\ ticks = 0
    /\ sessions = <<>>
    /\ heap = <<>>
    /\ streaming_enabled \in BOOLEAN
    /\ conn = [c \in Conns |-> NewConn]
    /\ handled = 0

Next ==
    \/ \E c \in Solo, sid \in PathIds, token \in Tokens :
          \/ ConnectRejectAuth(c, sid, token)
          \/ ConnectRejectId(c, sid, token)
          \/ ConnectAccept(c, sid, token)
    \/ \E c \in Solo :
          \/ ReceiveDisconnected(c)
          \/ \E kind \in {"not_json", "not_object"} : RecvMalformed(c, kind)
          \/ RecvUnknown(c)
          \/ \E variant \in {"valid", "raw", "junk", "absent"}, resume \in Resumes :
                RecvResumeContext(c, variant, resume)
          \/ RecvPlaybackComplete(c)
          \/ \E ok \in BOOLEAN : RecvRequestProblem(c, ok)
          \/ RecvEndSession(c)
          \/ \E length \in {MAX_CODE_LENGTH, MAX_CODE_LENGTH + 1}, language \in Languages :
                RecvCodeSubmission(c, length, language)
          \/ \E ok \in BOOLEAN, dropped \in BOOLEAN : CodeEvalDone(c, ok, dropped)
          \/ RecvRequestEvaluation(c)
          \/ \E ok \in BOOLEAN, dropped \in BOOLEAN : EvaluationDone(c, ok, dropped)
          \/ \E ov \in Overrides : RecvStartInterviewAgain(c, ov)
          \/ \E ov \in Overrides : RecvStartInterview(c, ov)
          \/ \E ok \in BOOLEAN, dropped \in BOOLEAN : StartInterviewLLM(c, ok, dropped)
          \/ \E ok \in BOOLEAN, dropped \in BOOLEAN : StartInterviewTTS(c, ok, dropped)
          \/ \E size \in AudioSizes, speech \in BOOLEAN :
                \/ RecvAudioTooLarge(c, size, speech)
                \/ RecvAudioBatch(c, size, speech)
                \/ RecvAudioStreaming(c, size, speech)
          \/ \E outcome \in {"text", "empty", "fail"}, dropped \in BOOLEAN :
                BatchSTT(c, outcome, dropped)
          \/ \E ok \in BOOLEAN, dropped \in BOOLEAN : BatchLLM(c, ok, dropped)
          \/ \E ok \in BOOLEAN, dropped \in BOOLEAN : BatchTTS(c, ok, dropped)
    \/ \E d \in {SESSION_TTL_MINUTES, SESSION_TTL_MINUTES + 1} : Tick(d)

PIdle == pp = None /\ pout = <<>>

\* No InterviewState and no SessionManager caller is driven directly
UIdle == istate = None /\ mgr = None /\ sb = None

Init == HInit /\ PIdle /\ UIdle

Spec == Init /\ [][Next]_vars

(***************************************************************************)
(* Two clients at once: each connection has its own handler coroutine, and *)
(* the handlers share the SessionManager.  The steps are those of the      *)
(* handler that touch the registry or the session: connecting, the audio   *)
(* turn, end_session and the disconnect.                                   *)
(***************************************************************************)
\* The path ids the two clients connect with: an id, its upper-case spelling
\* and another id
SharedIds == {"u1", "U1", "u2"}

DuoNext ==
    \/ \E c \in Conns, sid \in SharedIds : ConnectAccept(c, sid, "")
    \/ \E c \in Conns :
          \/ ReceiveDisconnected(c)
          \/ RecvEndSession(c)
          \/ \E speech \in BOOLEAN :
                \/ RecvAudioBatch(c, MAX_AUDIO_DATA_BYTES, speech)
                \/ RecvAudioStreaming(c, MAX_AUDIO_DATA_BYTES, speech)
          \/ \E outcome \in {"text", "empty", "fail"}, dropped \in BOOLEAN :
                BatchSTT(c, outcome, dropped)
          \/ \E ok \in BOOLEAN, dropped \in BOOLEAN : BatchLLM(c, ok, dropped)
          \/ \E ok \in BOOLEAN, dropped \in BOOLEAN : BatchTTS(c, ok, dropped)

DuoSpec == Init /\ [][DuoNext]_vars

(***************************************************************************)
(* StreamingPipeline.process_audio_streaming, called as its signature      *)
(* requires with the three callbacks of process_audio_turn_streaming, and  *)
(* the caller's code around the call.  The generation task and the         *)
(* synthesis task run concurrently; every step below is the code between   *)
(* two awaits of one task.                                                 *)
(***************************************************************************)
\* a message of the streaming turn: type, role or code or state, recoverable,
\* sequence, is_final, payload ("" or "x"), and the sentence an audio chunk
\* belongs to (bookkeeping of the model, 0 for none)
PMsg(t, a, n, final, data, snt) ==
    [t |-> t, a |-> a, r |-> TRUE, n |-> n, final |-> final, data |-> data, snt |-> snt]

PPlain(m) == PMsg(m.t, m.a, m.n, FALSE, "", 0)

PError(m) == [PPlain(m) EXCEPT !.r = m.r]

PSeq(msgs) == [i \in 1..Len(msgs) |-> PError(msgs[i])]

\* The pipeline has not returned
NoResult == [transcript |-> "-", response_text |-> "-", audio |-> "-"]

\* The call is made: locals of process_audio_turn_streaming and of
\* process_audio_streaming at their initial values
NewCall(stt_provider, tts_provider) ==
    [main |-> "stt_primary",     \* stt_primary, stt_fallback, gather; then the turn is over:
                                 \* returned, early (no speech), raised
     cause |-> None,             \* for raised: what raised
     stt_provider |-> stt_provider,
     tts_provider |-> tts_provider,
     alive |-> TRUE,             \* the client has not dropped the connection
     state |-> add_message(NewInterviewState("uuid1", 0), "interviewer"),
     primary_calls |-> 0,        \* transcribe calls on the configured provider
     fallback_calls |-> 0,       \* transcribe calls in the except clause
     primary |-> "-",            \* what the configured provider did: ok, fail
     fallback |-> "-",           \* what the fallback provider did: ok, fail
     stt_text |-> "-",           \* what the last transcribe call returned: text, blank, empty
     result |-> NoResult,        \* what the pipeline returned: transcript, response_text, audio
     llm_calls |-> 0,            \* generate_stream calls
     transcript |-> "",
     transcript_seq |-> 0,
     audio_chunk_seq |-> 0,
     audio_chunks_sent |-> 0,
     llm |-> "idle",             \* process_llm_stream: idle, stream, done, failed
     tokens |-> 0,
     pending |-> FALSE,          \* sentence_buffer.buffer.strip() is not empty
     produced |-> 0,             \* sentences put on the queue so far; they are numbered 1, 2, ...
     flushed |-> 0,              \* the sentence that flush() returned, 0 for none
     sentence_queue |-> <<>>,    \* sentence numbers; 0 is the None that ends the stream
     tts |-> "idle",             \* process_tts_stream: idle, get, primary, fallback, done, failed
     sentence |-> 0,             \* the sentence being synthesized
     chunks |-> 0,               \* chunks the primary stream has yielded for it
     attempted |-> {},           \* sentences whose synthesis was started
     failed_both |-> {}]         \* sentences neither provider synthesized

\* on_transcript(text, True) on a live connection: two sends around add_message
on_transcript(p, out) ==
    LET st == add_message(p.state, "candidate")
    IN [p |-> [p EXCEPT !.state = st, !.transcript_seq = @ + 1],
        out |-> out \o <<PMsg("transcript_delta", "candidate", p.transcript_seq, TRUE, "", 0),
                         PMsg("transcript", "candidate", st.sequence_number, FALSE, "", 0)>>]

\* on_llm_text(text)
on_llm_text(p, out) ==
    Append(out, PMsg("transcript_delta", "interviewer", p.transcript_seq, FALSE, "x", 0))

\* on_audio_chunk without `audio_chunk_seq += 1`
on_audio_chunk_NoIncrement(p, out, data, is_final) ==
    IF data # ""
    THEN [p |-> p,
          out |-> Append(out, PMsg("audio_chunk", "mp3", p.audio_chunk_seq, is_final,
                                   data, p.sentence))]
    ELSE IF is_final
    THEN [p |-> p,
          out |-> Append(out, PMsg("audio_chunk", "mp3", p.audio_chunk_seq, TRUE, "", 0))]
    ELSE [p |-> p, out |-> out]

\* on_audio_chunk(chunk, is_final) on a live connection
on_audio_chunk(p, out, data, is_final) ==
    IF data # ""
    THEN [p |-> [p EXCEPT !.audio_chunk_seq = @ + 1],
          out |-> Append(out, PMsg("audio_chunk", "mp3", p.audio_chunk_seq, is_final,
                                   data, p.sentence))]
    ELSE IF is_final
    THEN [p |-> p,
          out |-> Append(out, PMsg("audio_chunk", "mp3", p.audio_chunk_seq, TRUE, "", 0))]
    ELSE [p |-> p, out |-> out]

\* The caller after the pipeline returned a transcript that is blank
EarlyReturn(p, out) ==
    [p |-> [p EXCEPT !.main = "early", !.transcript = "",
                     !.result = [transcript |-> "", response_text |-> "", audio |-> ""]],
     out |-> IF p.alive
             THEN out \o PSeq(_ws_error_response("EMPTY_TRANSCRIPTION", TRUE, TRUE) \o <<Ready>>)
             ELSE out]

\* The caller's except clause, then the loop's ready
Raised(p, out, cause) ==
    [p |-> [p EXCEPT !.main = "raised", !.cause = cause],
     out |-> IF p.alive THEN out \o PSeq(StreamingFailure) ELSE out]

\* Transcribed without the `if not transcript.strip()` return
Transcribed_NoShortCircuit(p, out, text, on_raise) ==
    IF text # "empty" /\ ~p.alive
    THEN on_raise
    ELSE LET r == IF text # "empty" THEN on_transcript(p, out) ELSE [p |-> p, out |-> out]
         IN [p |-> [r.p EXCEPT !.main = "gather", !.transcript = text,
                               !.llm = "stream", !.llm_calls = @ + 1, !.tts = "get"],
             out |-> r.out]

\* _transcribe_with_deepgram / _transcribe_with_whisper returned `text`
\* ("text", "blank" for whitespace only, "empty"); the callback runs if the
\* text is not empty and raises if the client is gone
Transcribed(p, out, text, on_raise) ==
    IF text # "empty" /\ ~p.alive
    THEN on_raise
    ELSE LET r == IF text # "empty" THEN on_transcript(p, out) ELSE [p |-> p, out |-> out]
         IN IF text = "text"
            THEN [p |-> [r.p EXCEPT !.main = "gather", !.transcript = "text",
                                    !.llm = "stream", !.llm_calls = @ + 1, !.tts = "get"],
                  out |-> r.out]
            ELSE EarlyReturn(r.p, r.out)

\* What a provider can return: Whisper strips its text, Deepgram does not
Texts(provider) == IF provider = "deepgram" THEN {"text", "blank", "empty"}
                   ELSE {"text", "empty"}

\* PrimarySTTFailed without the except clause: the exception reaches the caller
PrimarySTTFailed_NoFallback(p, out) == Raised(p, out, "stt")

\* `except Exception` around the configured provider: go on with Whisper
PrimarySTTFailed(p, out) == [p |-> [p EXCEPT !.main = "stt_fallback"], out |-> out]

\* Step 1: the configured provider
PSTTPrimary(outcome) ==
    /\ pp.main = "stt_primary"
    /\ outcome \in Texts(pp.stt_provider) \cup {"fail"}
    /\ LET p == [pp EXCEPT !.primary_calls = @ + 1,
                            !.primary = IF outcome = "fail" THEN "fail" ELSE "ok",
                            !.stt_text = IF outcome = "fail" THEN "-" ELSE outcome]
           fallback == PrimarySTTFailed(p, pout)
           r == IF outcome = "fail" THEN fallback
                ELSE Transcribed(p, pout, outcome, fallback)
       IN pp' = r.p /\ pout' = r.out
    /\ UNCHANGED <<hvars, uvars>>

\* The except clause of step 1: Whisper, whatever the configured provider is
PSTTFallback(outcome) ==
    /\ pp.main = "stt_fallback"
    /\ outcome \in Texts("whisper") \cup {"fail"}
    /\ LET p == [pp EXCEPT !.fallback_calls = @ + 1,
                            !.fallback = IF outcome = "fail" THEN "fail" ELSE "ok",
                            !.stt_text = IF outcome = "fail" THEN "-" ELSE outcome]
           r == IF outcome = "fail" THEN Raised(p, pout, "stt")
                ELSE Transcribed(p, pout, outcome, Raised(p, pout, "send"))
       IN pp' = r.p /\ pout' = r.out
    /\ UNCHANGED <<hvars, uvars>>

\* process_llm_stream: one token.  add_token returns a sentence (ready) or
\* None, and leaves text in the buffer (rest) or not.
PLLMToken(ready, rest) ==
    /\ pp.llm = "stream"
    /\ pp.tokens < MaxTokens
    /\ IF ~pp.alive
       THEN \* on_llm_text raises in the send
            /\ pp' = [pp EXCEPT !.tokens = @ + 1, !.llm = "failed"]
            /\ UNCHANGED pout
       ELSE /\ pout' = on_llm_text(pp, pout)
            /\ pp' = [pp EXCEPT
                        !.tokens = @ + 1,
                        !.pending = rest,
                        !.produced = IF ready THEN @ + 1 ELSE @,
                        !.sentence_queue = IF ready THEN Append(@, pp.produced + 1) ELSE @]
    /\ UNCHANGED <<hvars, uvars>>

\* generate_stream raises
PLLMFail ==
    /\ pp.llm = "stream"
    /\ pp' = [pp EXCEPT !.llm = "failed"]
    /\ UNCHANGED pout
    /\ UNCHANGED <<hvars, uvars>>

\* The token stream ends: flush, then the None that ends the sentences
PLLMEnd ==
    /\ pp.llm = "stream"
    /\ pp' = [pp EXCEPT
                !.llm = "done",
                !.pending = FALSE,
                !.produced = IF pp.pending THEN @ + 1 ELSE @,
                !.flushed = IF pp.pending THEN pp.produced + 1 ELSE 0,
                !.sentence_queue =
                    (IF pp.pending THEN Append(@, pp.produced + 1) ELSE @) \o <<0>>]
    /\ UNCHANGED pout
    /\ UNCHANGED <<hvars, uvars>>

\* QueueGet of a LIFO queue: the item that was put last
QueueGet_Last(q) == [item |-> q[Len(q)], rest |-> SubSeq(q, 1, Len(q) - 1)]

\* asyncio.Queue.get: the item that was put first
QueueGet(q) == [item |-> Head(q), rest |-> Tail(q)]

\* process_tts_stream: next sentence, or None and the final marker
PTTSGet ==
    /\ pp.tts = "get"
    /\ pp.sentence_queue # <<>>
    /\ LET g == QueueGet(pp.sentence_queue)
           p == [pp EXCEPT !.sentence_queue = g.rest]
       IN IF g.item # 0
          THEN /\ pp' = [p EXCEPT !.tts = "primary", !.sentence = g.item, !.chunks = 0,
                                  !.attempted = @ \cup {g.item}]
               /\ UNCHANGED pout
          ELSE IF p.alive
          THEN LET r == on_audio_chunk([p EXCEPT !.sentence = 0], pout, "", TRUE)
               IN pp' = [r.p EXCEPT !.tts = "done"] /\ pout' = r.out
          ELSE pp' = [p EXCEPT !.tts = "failed"] /\ UNCHANGED pout
    /\ UNCHANGED <<hvars, uvars>>

\* ElevenLabs yields one chunk of the sentence (its chunks carry data)
PTTSChunk(data) ==
    /\ pp.tts = "primary"
    /\ pp.tts_provider = "elevenlabs"
    /\ pp.chunks < MaxChunks
    /\ IF data # "" /\ ~pp.alive
       THEN pp' = [pp EXCEPT !.tts = "fallback"] /\ UNCHANGED pout
       ELSE LET r == on_audio_chunk(pp, pout, data, FALSE)
            IN /\ pp' = [r.p EXCEPT !.chunks = @ + 1, !.audio_chunks_sent = @ + 1]
               /\ pout' = r.out
    /\ UNCHANGED <<hvars, uvars>>

\* The ElevenLabs stream of the sentence ends
PTTSStreamEnd ==
    /\ pp.tts = "primary"
    /\ pp.tts_provider = "elevenlabs"
    /\ pp' = [pp EXCEPT !.tts = "get"]
    /\ UNCHANGED pout
    /\ UNCHANGED <<hvars, uvars>>

\* The primary provider raises (for ElevenLabs: before or between chunks)
PTTSPrimaryFail ==
    /\ pp.tts = "primary"
    /\ pp' = [pp EXCEPT !.tts = "fallback"]
    /\ UNCHANGED pout
    /\ UNCHANGED <<hvars, uvars>>

\* OpenAI as the configured provider: the whole sentence in one result
PTTSSynthesize(data) ==
    /\ pp.tts = "primary"
    /\ pp.tts_provider # "elevenlabs"
    /\ IF data # "" /\ ~pp.alive
       THEN pp' = [pp EXCEPT !.tts = "fallback"] /\ UNCHANGED pout
       ELSE LET r == on_audio_chunk(pp, pout, data, FALSE)
            IN /\ pp' = [r.p EXCEPT !.tts = "get", !.audio_chunks_sent = @ + 1]
               /\ pout' = r.out
    /\ UNCHANGED <<hvars, uvars>>

\* FallbackTTSFailed without the inner except clause: the task raises
FallbackTTSFailed_Propagates(p, synthesized) ==
    [p EXCEPT !.tts = "failed",
              !.failed_both = IF synthesized THEN @ ELSE @ \cup {p.sentence}]

\* The inner `except Exception`: the failure is logged, the while loop goes on.
\* (synthesized: the provider gave audio and it was the send that raised)
FallbackTTSFailed(p, synthesized) ==
    [p EXCEPT !.tts = "get",
              !.failed_both = IF synthesized THEN @ ELSE @ \cup {p.sentence}]

\* The except clause: OpenAI; its failure is logged and the loop goes on
PTTSFallback(ok, data) ==
    /\ pp.tts = "fallback"
    /\ IF ~ok \/ (data # "" /\ ~pp.alive)
       THEN /\ pp' = FallbackTTSFailed(pp, ok)
            /\ UNCHANGED pout
       ELSE LET r == on_audio_chunk(pp, pout, data, FALSE)
            IN /\ pp' = [r.p EXCEPT !.tts = "get", !.audio_chunks_sent = @ + 1]
               /\ pout' = r.out
    /\ UNCHANGED <<hvars, uvars>>

\* asyncio.gather: both tasks finished, the pipeline returns its result and the
\* caller records the reply and sends the final transcript; the loop sends ready
PGatherReturns ==
    /\ pp.main = "gather"
    /\ pp.llm = "done" /\ pp.tts = "done"
    /\ LET st == RecordReply(pp.state)
       IN /\ pp' = [pp EXCEPT !.main = "returned", !.state = st,
                                !.result = [transcript |-> "text",
                                            response_text |-> IF pp.tokens > 0 THEN "text" ELSE "",
                                            audio |-> IF pp.audio_chunks_sent > 0 THEN "x" ELSE ""]]
          /\ pout' = IF pp.alive
                     THEN pout \o
                          <<PMsg("transcript_delta", "interviewer", pp.transcript_seq,
                                 TRUE, "", 0),
                            PMsg("transcript", "interviewer", st.sequence_number,
                                 FALSE, "", 0),
                            PPlain(Ready)>>
                     ELSE pout
    /\ UNCHANGED <<hvars, uvars>>

\* asyncio.gather: a task raised.  The exception reaches the caller; the other
\* task is not cancelled.
PGatherRaises ==
    /\ pp.main = "gather"
    /\ pp.llm = "failed" \/ pp.tts = "failed"
    /\ LET r == Raised(pp, pout, IF pp.llm = "failed" THEN "llm" ELSE "tts_final")
       IN pp' = r.p /\ pout' = r.out
    /\ UNCHANGED <<hvars, uvars>>

\* process_audio_batch: transcription by the configured provider; a blank
\* transcript returns ("", "", b"") at once
PBatchSTT(outcome) ==
    /\ pp.main = "batch_stt"
    /\ outcome \in Texts(pp.stt_provider) \cup {"fail"}
    /\ pp' = IF outcome = "fail"
             THEN [pp EXCEPT !.primary_calls = @ + 1, !.main = "batch_raised", !.cause = "stt"]
             ELSE IF outcome = "text"
             THEN [pp EXCEPT !.primary_calls = @ + 1, !.stt_text = outcome,
                             !.transcript = "text", !.main = "batch_llm"]
             ELSE [pp EXCEPT !.primary_calls = @ + 1, !.stt_text = outcome,
                             !.main = "batch_returned",
                             !.result = [transcript |-> "", response_text |-> "", audio |-> ""]]
    /\ UNCHANGED pout
    /\ UNCHANGED <<hvars, uvars>>

\* process_audio_batch: llm.generate
PBatchLLM(ok) ==
    /\ pp.main = "batch_llm"
    /\ pp' = IF ok
             THEN [pp EXCEPT !.llm_calls = @ + 1, !.main = "batch_tts"]
             ELSE [pp EXCEPT !.llm_calls = @ + 1, !.main = "batch_raised", !.cause = "llm"]
    /\ UNCHANGED pout
    /\ UNCHANGED <<hvars, uvars>>

\* process_audio_batch: synthesize with the configured provider, then return
PBatchTTS(ok) ==
    /\ pp.main = "batch_tts"
    /\ pp' = IF ok
             THEN [pp EXCEPT !.main = "batch_returned",
                             !.result = [transcript |-> "text", response_text |-> "text",
                                         audio |-> "x"]]
             ELSE [pp EXCEPT !.main = "batch_raised", !.cause = "tts"]
    /\ UNCHANGED pout
    /\ UNCHANGED <<hvars, uvars>>

\* The client drops the connection during the turn
PDrop ==
    /\ pp.main \in {"stt_primary", "stt_fallback", "gather"}
    /\ pp.alive
    /\ pp' = [pp EXCEPT !.alive = FALSE]
    /\ UNCHANGED pout
    /\ UNCHANGED <<hvars, uvars>>

HIdle ==
    /\ now = 0
    /\ ticks = 0
    /\ sessions = <<>>
    /\ heap = <<>>
    /\ streaming_enabled = TRUE
    /\ conn = [c \in Conns |-> NewConn]
    /\ handled = 0

PInit ==
    /\ HIdle
    /\ UIdle
    /\ \E stt_provider \in {"deepgram", "whisper"}, tts_provider \in {"elevenlabs", "openai"} :
          \/ /\ pp = NewCall(stt_provider, tts_provider)
             /\ pout = <<PPlain(Msg("streaming_status", "transcribing"))>>
          \/ /\ pp = [NewCall(stt_provider, tts_provider) EXCEPT !.main = "batch_stt"]
             /\ pout = <<>>

PNext ==
    \/ \E outcome \in {"text", "blank", "empty", "fail"} :
          \/ PSTTPrimary(outcome)
          \/ PSTTFallback(outcome)
    \/ \E ready \in BOOLEAN, rest \in BOOLEAN : PLLMToken(ready, rest)
    \/ PLLMFail
    \/ PLLMEnd
    \/ PTTSGet
    \/ PTTSChunk("x")
    \/ \E data \in {"x", ""} :
          \/ PTTSSynthesize(data)
          \/ \E ok \in BOOLEAN : PTTSFallback(ok, data)
    \/ PTTSStreamEnd
    \/ PTTSPrimaryFail
    \/ PGatherReturns
    \/ PGatherRaises
    \/ \E outcome \in {"text", "blank", "empty", "fail"} : PBatchSTT(outcome)
    \/ \E ok \in BOOLEAN : PBatchLLM(ok) \/ PBatchTTS(ok)
    \/ PDrop

PipeSpec == PInit /\ [][PNext]_vars

(***************************************************************************)
(* One InterviewState driven through its methods, as its unit tests do,    *)
(* and through the bookkeeping a turn of the handler performs on it        *)
(***************************************************************************)
\* InterviewState(questions_asked=q, max_questions=m), before any call
NewUnit(q, m) ==
    [s |-> [NewInterviewState("uuid1", 0) EXCEPT !.questions_asked = q, !.max_questions = m],
     returned |-> <<>>,          \* what the add_message calls returned, in call order
     advances |-> 0,             \* advance_phase calls made directly
     turns |-> 0,                \* turns of the handler that recorded a reply
     calls |-> 0,                \* calls made in all
     last |-> "-",               \* the last call
     result |-> FALSE]           \* what should_wrap_up returned, when it was the last call

\* state.add_message(role, content)
SAddMessage(role) ==
    /\ istate.calls < MaxCalls
    /\ LET s1 == add_message(istate.s, role)
       IN istate' = [istate EXCEPT !.s = s1, !.returned = Append(@, s1.sequence_number),
                                   !.calls = @ + 1, !.last = "add_message"]
    /\ UNCHANGED <<hvars, pvars, mgr, sb>>

\* state.advance_phase()
SAdvancePhase ==
    /\ istate.calls < MaxCalls
    /\ istate' = [istate EXCEPT !.s = advance_phase(@), !.advances = @ + 1,
                                !.calls = @ + 1, !.last = "advance_phase"]
    /\ UNCHANGED <<hvars, pvars, mgr, sb>>

\* state.should_wrap_up()
SShouldWrapUp ==
    /\ istate.calls < MaxCalls
    /\ istate' = [istate EXCEPT !.result = should_wrap_up(istate.s),
                                !.calls = @ + 1, !.last = "should_wrap_up"]
    /\ UNCHANGED <<hvars, pvars, mgr, sb>>

\* A turn of the handler after the reply was generated: add_message, the
\* question count and the phase logic
STurn ==
    /\ istate.calls < MaxCalls
    /\ istate' = [istate EXCEPT
                     !.s = RecordReply(@),
                     !.returned = Append(@, add_message(istate.s, "interviewer").sequence_number),
                     !.turns = @ + 1, !.calls = @ + 1, !.last = "turn"]
    /\ UNCHANGED <<hvars, pvars, mgr, sb>>

SInit ==
    /\ HIdle
    /\ PIdle
    /\ mgr = None
    /\ sb = None
    /\ \E q \in 0..MaxCount, m \in (0..MaxCount) \cup {DefaultMaxQuestions} :
          istate = NewUnit(q, m)

SNext ==
    \/ \E role \in {"candidate", "interviewer"} : SAddMessage(role)
    \/ SAdvancePhase
    \/ SShouldWrapUp
    \/ STurn

StateSpec == SInit /\ [][SNext]_vars

(***************************************************************************)
(* The SessionManager called directly, as its unit and concurrency tests   *)
(* do.  Every call runs from start to end without yielding to the event    *)
(* loop: get_session is not a coroutine, and create_session and            *)
(* remove_session await only the acquisition of self._lock, which is never *)
(* held across a suspension and therefore never makes them wait.  Calls    *)
(* issued concurrently (asyncio.gather) thus execute one after another, in *)
(* any order.                                                              *)
(***************************************************************************)
NoCall == [op |-> "-", id |-> "-", had |-> FALSE, stale |-> FALSE,
           ret |-> NoRef, kept |-> FALSE, again |-> FALSE]

\* The record of one call: the id passed, whether the registry had
\* an entry under that id and whether that entry was older than the TTL when
\* the call was made, what the call returned, whether the registry has an
\* entry under the id afterwards, and whether the call repeats a get_session
\* that had just found a stale entry under the same id
Call(op, id, had, ret, after) ==
    [op |-> op, id |-> id, had |-> had,
     stale |-> had /\ now - heap[RefOf(sessions, id)].started_at > SESSION_TTL_MINUTES,
     ret |-> ret, kept |-> HasKey(after, id),
     again |-> op = "get_session" /\ mgr.last.op = "get_session" /\ mgr.last.id = id
                  /\ (mgr.last.stale \/ mgr.last.again)]

NewManager ==
    [created |-> <<>>,           \* the create_session calls, in order: [id, ref]
     removed |-> FALSE,          \* remove_session has been called
     last |-> NoCall]            \* the last call

\* await session_manager.create_session(id)
RCreateSession(id) ==
    /\ Len(heap) < MaxCreates
    /\ LET key == StrUUID(ParseUUID(id))
           after == create_session(sessions, heap, id, now)
       IN /\ sessions' = after
          /\ heap' = Append(heap, NewInterviewState(ParseUUID(id), now))
          /\ mgr' = [mgr EXCEPT
                        !.created = Append(@, [id |-> id, ref |-> Len(heap) + 1]),
                        !.last = Call("create_session", key, HasKey(sessions, key),
                                      Len(heap) + 1, after)]
    /\ UNCHANGED <<now, ticks, streaming_enabled, conn, handled, pp, pout, istate, sb>>

\* session_manager.get_session(id)
RGetSession(id) ==
    /\ LET got == get_session(sessions, heap, id, now)
       IN /\ sessions' = got.reg
          /\ mgr' = [mgr EXCEPT
                        !.last = Call("get_session", id, HasKey(sessions, id),
                                      got.state, got.reg)]
    /\ UNCHANGED <<now, ticks, heap, streaming_enabled, conn, handled, pp, pout, istate, sb>>

\* await session_manager.remove_session(id)
RRemoveSession(id) ==
    /\ LET after == remove_session(sessions, id)
       IN /\ sessions' = after
          /\ mgr' = [mgr EXCEPT
                        !.removed = TRUE,
                        !.last = Call("remove_session", id, HasKey(sessions, id),
                                      NoRef, after)]
    /\ UNCHANGED <<now, ticks, heap, streaming_enabled, conn, handled, pp, pout, istate, sb>>

RInit ==
    /\ HIdle
    /\ PIdle
    /\ istate = None
    /\ sb = None
    /\ mgr = NewManager

RNext ==
    \/ \E id \in ManagerIds : RCreateSession(id)
    \/ \E id \in ManagerKeys :
          \/ RGetSession(id)
          \/ RRemoveSession(id)
    \/ \E d \in {SESSION_TTL_MINUTES, SESSION_TTL_MINUTES + 1} : Tick(d)

RegSpec == RInit /\ [][RNext]_vars

(***************************************************************************)
(* SentenceBuffer.  Text is a sequence of characters, so that searching,   *)
(* stripping and lower-casing are computed as str and re compute them.     *)
(***************************************************************************)
\* settings.streaming_sentence_min_chars, the min_chars of SentenceBuffer()
streaming_sentence_min_chars == 20

Terminators == {".", "!", "?"}

Closers == {"\"", "'", ")", "]"}

\* what \s matches and str.strip removes
Whitespace == {" ", "\t", "\n"}

ABBREVIATIONS ==
    {
     <<"m", "r", ".">>,
     <<"m", "r", "s", ".">>,
     <<"m", "s", ".">>,
     <<"d", "r", ".">>,
     <<"p", "r", "o", "f", ".">>,
     <<"s", "r", ".">>,
     <<"j", "r", ".">>,
     <<"v", "s", ".">>,
     <<"e", "t", "c", ".">>,
     <<"i", ".", "e", ".">>,
     <<"e", ".", "g", ".">>,
     <<"a", ".", "m", ".">>,
     <<"p", ".", "m", ".">>,
     <<"i", "n", "c", ".">>,
     <<"l", "t", "d", ".">>,
     <<"c", "o", "r", "p", ".">>,
     <<"c", "o", ".">>,
     <<"s", "t", ".">>,
     <<"a", "v", "e", ".">>,
     <<"j", "a", "n", ".">>,
     <<"f", "e", "b", ".">>,
     <<"m", "a", "r", ".">>,
     <<"a", "p", "r", ".">>,
     <<"j", "u", "n", ".">>,
     <<"j", "u", "l", ".">>,
     <<"a", "u", "g", ".">>,
     <<"s", "e", "p", ".">>,
     <<"o", "c", "t", ".">>,
     <<"n", "o", "v", ".">>,
     <<"d", "e", "c", ".">>}

UpperCase ==
    <<"A", "B", "C", "D", "E", "F", "G", "H", "I", "J", "K", "L", "M",
      "N", "O", "P", "Q", "R", "S", "T", "U", "V", "W", "X", "Y", "Z">>

LowerCase ==
    <<"a", "b", "c", "d", "e", "f", "g", "h", "i", "j", "k", "l", "m",
      "n", "o", "p", "q", "r", "s", "t", "u", "v", "w", "x", "y", "z">>

LowerChar(ch) ==
    IF \E i \in 1..Len(UpperCase) : UpperCase[i] = ch
    THEN LowerCase[CHOOSE i \in 1..Len(UpperCase) : UpperCase[i] = ch]
    ELSE ch

\* str.lower
lower(text) == [i \in 1..Len(text) |-> LowerChar(text[i])]

\* The element of a one-element set.  Only({F(x) : x \in {e}}) is F(e) with e
\* computed once, however often F uses it.
Only(S) == CHOOSE x \in S : TRUE

Least(S) == CHOOSE x \in S : \A y \in S : x <= y

Greatest(S) == CHOOSE x \in S : \A y \in S : x >= y

\* str.strip
strip(text) ==
    LET solid == {i \in 1..Len(text) : text[i] \notin Whitespace}
    IN IF solid = {} THEN <<>> ELSE SubSeq(text, Least(solid), Greatest(solid))

\* str.endswith
endswith(text, suffix) ==
    /\ Len(text) >= Len(suffix)
    /\ SubSeq(text, Len(text) - Len(suffix) + 1, Len(text)) = suffix

\* " ".join
Join(parts) ==
    LET joined[k \in 1..Len(parts)] ==
            IF k = Len(parts) THEN parts[k]
            ELSE parts[k] \o <<" ">> \o joined[k + 1]
    IN IF parts = <<>> THEN <<>> ELSE joined[1]

\* The last index of the longest run of characters of class S that starts at
\* index i (i - 1 when text[i] is not of the class)
RunEnd(text, i, S) ==
    LET stops == {j \in i..Len(text) : text[j] \notin S}
    IN IF stops = {} THEN Len(text) ELSE Least(stops) - 1

NoMatch == [found |-> FALSE, group |-> <<>>, end |-> 0]

\* The pattern ([^.!?]*[.!?]+["')\]]*)\s+ tried at index p: characters up to
\* the first run of terminators, that whole run, the closers after it, and at
\* least one whitespace character.  Every shorter choice of a greedy part
\* leaves a character the next part cannot take, so this is the only way the
\* pattern matches at p.  `end` is the last index of the match.
MatchAt(text, p) ==
    LET terms == {j \in p..Len(text) : text[j] \in Terminators}
    IN IF terms = {} THEN NoMatch
       ELSE LET a == Least(terms)
                b == RunEnd(text, a, Terminators)
                c == RunEnd(text, b + 1, Closers)
                d == RunEnd(text, c + 1, Whitespace)
            IN IF d > c
               THEN [found |-> TRUE, group |-> SubSeq(text, p, c), end |-> d]
               ELSE NoMatch

\* pattern.search(text, pos): the match at the least index from start on
search(text, start) ==
    LET ps == {p \in start..Len(text) : MatchAt(text, p).found}
    IN IF ps = {} THEN NoMatch ELSE MatchAt(text, Least(ps))

IsAbbreviation(potential_sentence) ==
    \E sentence_lower \in {lower(potential_sentence)} :
        \E abbrev \in ABBREVIATIONS : endswith(sentence_lower, abbrev)

\* _extract_sentences that takes every match for a sentence
RECURSIVE _extract_sentences_NoAbbreviations(_, _)
_extract_sentences_NoAbbreviations(buffer, sentences) ==
    Only({IF ~match.found
          THEN [sentences |-> s, buffer |-> b]
          ELSE _extract_sentences_NoAbbreviations(SubSeq(b, match.end + 1, Len(b)),
                                                  Append(s, strip(match.group))) :
             b \in {buffer}, s \in {sentences}, match \in {search(buffer, 1)}})

RECURSIVE _extract_sentences(_, _)
\* The abbreviation branch of the loop, next_match being what
\* pattern.search(self.buffer, match.end()) gave
AfterAbbreviation(buffer, sentences, next_match) ==
    IF next_match.found
    THEN _extract_sentences(SubSeq(buffer, next_match.end + 1, Len(buffer)),
                            Append(sentences, strip(SubSeq(buffer, 1, next_match.end))))
    ELSE [sentences |-> sentences, buffer |-> buffer]

\* One pass of the loop, match being what pattern.search(self.buffer) gave
ExtractLoop(buffer, sentences, match, potential_sentence) ==
    IF ~match.found
    THEN [sentences |-> sentences, buffer |-> buffer]
    ELSE IF IsAbbreviation(potential_sentence)
    THEN Only({AfterAbbreviation(buffer, sentences, next_match) :
                  next_match \in {search(buffer, match.end + 1)}})
    ELSE _extract_sentences(SubSeq(buffer, match.end + 1, Len(buffer)),
                            Append(sentences, potential_sentence))

\* _extract_sentences: the loop, from a buffer and the sentences found so far
\* to the list it returns and the buffer it leaves
_extract_sentences(buffer, sentences) ==
    Only({Only({ExtractLoop(b, s, match, potential_sentence) :
                   potential_sentence \in {strip(match.group)}}) :
             b \in {buffer}, s \in {sentences}, match \in {search(buffer, 1)}})

\* add_token after self._extract_sentences(), ex being what that left
AddTokenReturn(ex, min_chars) ==
    IF ex.sentences # <<>>
    THEN IF Len(ex.sentences[1]) >= min_chars
         THEN [ret |-> ex.sentences[1],
               buffer |-> IF Len(ex.sentences) > 1
                          THEN Join(Tail(ex.sentences)) \o <<" ">> \o ex.buffer
                          ELSE ex.buffer,
               sentences |-> ex.sentences]
         ELSE [ret |-> <<>>,
               buffer |-> Join(ex.sentences) \o <<" ">> \o ex.buffer,
               sentences |-> ex.sentences]
    ELSE [ret |-> <<>>, buffer |-> ex.buffer, sentences |-> ex.sentences]

\* add_token: what it returns (<<>> for None), the buffer it leaves, and the
\* sentences _extract_sentences gave it
add_token(buffer, token, min_chars) ==
    Only({AddTokenReturn(ex, min_chars) : ex \in {_extract_sentences(buffer \o token, <<>>)}})

\* flush: what it returns (<<>> for None) and the buffer it leaves
flush(buffer) ==
    IF strip(buffer) # <<>>
    THEN [ret |-> strip(buffer), buffer |-> <<>>]
    ELSE [ret |-> <<>>, buffer |-> buffer]

\* reset: the buffer it leaves
reset(buffer) == <<>>

\* the text of the abbreviation example: Dr. Smith went home. He was tired.
DrSmithText ==
    <<"D", "r", ".", " ", "S", "m", "i", "t", "h", " ", "w", "e", "n", "t", " ", "h", "o",
      "m", "e", ".", " ", "H", "e", " ", "w", "a", "s", " ", "t", "i", "r", "e", "d", ".">>

\* two abbreviations in a row: Please welcome Prof. Dr. Smith to the stage. He is here.
ProfDrText ==
    <<"P", "l", "e", "a", "s", "e", " ", "w", "e", "l", "c", "o", "m", "e", " ", "P", "r",
      "o", "f", ".", " ", "D", "r", ".", " ", "S", "m", "i", "t", "h", " ", "t", "o", " ",
      "t", "h", "e", " ", "s", "t", "a", "g", "e", ".", " ", "H", "e", " ", "i", "s", " ",
      "h", "e", "r", "e", ".">>

\* a sentence below min_chars, then longer ones: Hi. How are you doing today? I am fine.
ShortFirstText ==
    <<"H", "i", ".", " ", "H", "o", "w", " ", "a", "r", "e", " ", "y", "o", "u", " ", "d",
      "o", "i", "n", "g", " ", "t", "o", "d", "a", "y", "?", " ", "I", " ", "a", "m", " ",
      "f", "i", "n", "e", ".">>

\* a short sentence after a long one: Hello there my friend. Ok. Now we go home to rest. Bye.
ShortSecondText ==
    <<"H", "e", "l", "l", "o", " ", "t", "h", "e", "r", "e", " ", "m", "y", " ", "f", "r",
      "i", "e", "n", "d", ".", " ", "O", "k", ".", " ", "N", "o", "w", " ", "w", "e", " ",
      "g", "o", " ", "h", "o", "m", "e", " ", "t", "o", " ", "r", "e", "s", "t", ".", " ",
      "B", "y", "e", ".">>

\* closing quote after the terminator, no terminator at the end: She said 'Stop!' Then she left the room. Done
QuotedText ==
    <<"S", "h", "e", " ", "s", "a", "i", "d", " ", "\"", "S", "t", "o", "p", "!", "\"",
      " ", "T", "h", "e", "n", " ", "s", "h", "e", " ", "l", "e", "f", "t", " ", "t", "h",
      "e", " ", "r", "o", "o", "m", ".", " ", "D", "o", "n", "e">>

\* a full stop inside a number: Version 2.5 is the newest release today. Done
DecimalText ==
    <<"V", "e", "r", "s", "i", "o", "n", " ", "2", ".", "5", " ", "i", "s", " ", "t", "h",
      "e", " ", "n", "e", "w", "e", "s", "t", " ", "r", "e", "l", "e", "a", "s", "e", " ",
      "t", "o", "d", "a", "y", ".", " ", "D", "o", "n", "e">>

\* The texts the buffer is fed
StreamTexts ==
    {DrSmithText, ProfDrText, ShortFirstText, ShortSecondText, QuotedText, DecimalText}

\* SentenceBuffer(), about to receive the tokens of text
NewBuffer(text) ==
    [text |-> text,
     pos |-> 0,                  \* characters of text passed to add_token so far
     buffer |-> <<>>,            \* self.buffer
     sentences |-> <<>>,         \* what _extract_sentences gave the last add_token
     ret |-> <<>>,               \* what the last call returned
     out |-> <<>>,               \* what the add_token calls returned, in order
     ended |-> FALSE,            \* flush was called
     dropped |-> FALSE,          \* reset was called
     flushed |-> <<>>]           \* what flush returned

\* sentence_buffer.add_token(token), token being the next n characters
BAddToken(n) ==
    /\ ~sb.ended /\ ~sb.dropped
    /\ n >= 1
    /\ sb.pos + n <= Len(sb.text)
    /\ \E r \in {add_token(sb.buffer, SubSeq(sb.text, sb.pos + 1, sb.pos + n),
                           streaming_sentence_min_chars)} :
          sb' = [sb EXCEPT !.pos = @ + n, !.buffer = r.buffer,
                           !.sentences = r.sentences, !.ret = r.ret,
                           !.out = IF r.ret = <<>> THEN @ ELSE Append(@, r.ret)]
    /\ UNCHANGED <<hvars, pvars, istate, mgr>>

\* sentence_buffer.flush() at the end of the token stream
BFlush ==
    /\ ~sb.ended /\ ~sb.dropped
    /\ sb.pos = Len(sb.text)
    /\ \E r \in {flush(sb.buffer)} :
          sb' = [sb EXCEPT !.buffer = r.buffer, !.ret = r.ret, !.flushed = r.ret,
                           !.ended = TRUE]
    /\ UNCHANGED <<hvars, pvars, istate, mgr>>

\* sentence_buffer.reset(), at any point of the token stream
BReset ==
    /\ ~sb.ended /\ ~sb.dropped
    /\ sb' = [sb EXCEPT !.buffer = reset(sb.buffer), !.dropped = TRUE]
    /\ UNCHANGED <<hvars, pvars, istate, mgr>>

BInit ==
    /\ HIdle
    /\ PIdle
    /\ istate = None
    /\ mgr = None
    /\ \E text \in StreamTexts : sb = NewBuffer(text)

BNext ==
    \/ \E n \in 1..Len(sb.text) : BAddToken(n)
    \/ BFlush
    \/ BReset

SentSpec == BInit /\ [][BNext]_vars

(***************************************************************************)
(* Properties of the protocol handler                                      *)
(***************************************************************************)
\* The handler is back in its receive loop after handling an inbound message
TurnOver(c) == conn[c].pc = "loop" /\ conn[c].cur.kind # "-"

IsStatus(m, state) == m.t = "status" /\ m.a = state

IsTranscript(m, role) == m.t = "transcript" /\ m.a = role

IsAudio(m) == m.t \in {"audio", "audio_chunk"}

\* status(processing_stt), candidate transcript, status(generating), interviewer
\* transcript, status(speaking), one or more audio/audio_chunk, status(ready)
FullTurnOrder(log) ==
    /\ Len(log) >= 7
    /\ IsStatus(log[1], "processing_stt")
    /\ IsTranscript(log[2], "candidate")
    /\ IsStatus(log[3], "generating")
    /\ IsTranscript(log[4], "interviewer")
    /\ IsStatus(log[5], "speaking")
    /\ \A i \in 6..(Len(log) - 1) : IsAudio(log[i])
    /\ IsStatus(log[Len(log)], "ready")

\* An audio turn with speech, after a completed start_interview, in which the
\* session was found and no provider failed
CleanSpeechTurn(c) ==
    /\ TurnOver(c)
    /\ conn[c].cur.kind = "audio"
    /\ conn[c].cur.speech
    /\ conn[c].intro = "ok"
    /\ conn[c].cur.found
    /\ "fail" \notin {conn[c].cur.stt, conn[c].cur.llm, conn[c].cur.tts}

\* C1: every audio turn with non-silent speech on a started session, found in
\* the registry and with no provider failing, emits status(processing_stt),
\* candidate transcript, status(generating), interviewer transcript,
\* status(speaking), audio, status(ready), in this order.
C1_FullTurnAnyMode ==
    \A c \in Conns : CleanSpeechTurn(c) => FullTurnOrder(conn[c].log)

\* C1 on the batch turn processor alone (streaming disabled): the order holds.
C1_FullTurnBatch ==
    \A c \in Conns :
        CleanSpeechTurn(c) /\ ~conn[c].cur.streaming => FullTurnOrder(conn[c].log)

\* A streaming turn never sends status(processing_stt), status(generating) or
\* status(speaking): with the session found it opens with
\* streaming_status(transcribing)
C1_StreamingTurnStatuses ==
    \A c \in Conns :
        CleanSpeechTurn(c) /\ conn[c].cur.streaming
            => /\ conn[c].log[1].t = "streaming_status"
               /\ \A i \in 1..Len(conn[c].log) :
                      conn[c].log[i].t = "status" => conn[c].log[i].a = "ready"

\* A batch turn that ran through all three stages
C1_BatchTurnCompleted ==
    \E c \in Conns :
        /\ CleanSpeechTurn(c)
        /\ ~conn[c].cur.streaming
        /\ conn[c].cur.tts = "ok"
        /\ Len(conn[c].log) = 7

\* The InterviewState the connection is bound to is still in the registry
Registered(reg, ref) == \E i \in 1..Len(reg) : reg[i].ref = ref

\* C2: whenever the handler of an accepted connection stops (end_session,
\* disconnect or error), the session the connection was bound to is not in the
\* registry afterwards.
C2_StoppedHandlerSessionRemoved ==
    [][\A c \in Conns :
          (conn[c].accepted /\ conn[c].pc # "done" /\ conn'[c].pc = "done")
              => ~Registered(sessions', conn[c].state)]_vars

\* C3: a malformed inbound text message is ignored: no fatal error is sent and
\* the receive loop keeps running.
C3_MalformedIgnored ==
    \A c \in Conns :
        conn[c].cur.kind = "malformed"
            => /\ conn[c].pc # "done"
               /\ \A i \in 1..Len(conn[c].log) : ~IsFatal(conn[c].log[i])

\* C4: an error with recoverable=false ends the connection: nothing is sent and
\* no inbound message is handled after it, and the handler has stopped.
C4_FatalErrorEndsConnection ==
    \A c \in Conns :
        /\ ~conn[c].afterFatal
        /\ conn[c].fatal => conn[c].pc \in {"rejected", "done"}

\* The turn-level failures: an audio or code_submission message that the
\* handler answered without completing the turn
TurnFailed(c) ==
    /\ TurnOver(c)
    /\ \/ conn[c].cur.kind \in
              {"audio_too_large", "code_too_large", "invalid_language", "no_problem"}
       \/ /\ conn[c].cur.kind = "audio"
          /\ \/ ~conn[c].cur.found
             \/ conn[c].cur.streaming
             \/ conn[c].cur.stt \in {"empty", "fail"}
             \/ "fail" \in {conn[c].cur.llm, conn[c].cur.tts}

\* an error with recoverable=true, followed by status(ready)
RecoverableThenReady(log) ==
    \E i \in 1..Len(log) :
        /\ log[i].t = "error" /\ log[i].r
        /\ \E j \in (i + 1)..Len(log) : IsStatus(log[j], "ready")

\* C5: every turn-level failure is delivered as an error with recoverable=true,
\* leaves the connection open and is followed by status(ready).
C5_TurnFailureRecoverable ==
    \A c \in Conns :
        TurnFailed(c)
            => /\ RecoverableThenReady(conn[c].log)
               /\ \A i \in 1..Len(conn[c].log) : ~IsFatal(conn[c].log[i])

(***************************************************************************)
(* Properties of the streaming pipeline                                    *)
(***************************************************************************)
\* The session state when the pipeline is called: the introduction was recorded
CallState == NewCall("deepgram", "elevenlabs").state

\* The positions of the audio_chunk messages among the messages of the turn
AudioIdx(out) == {i \in 1..Len(out) : out[i].t = "audio_chunk"}

\* The turn was answered with a recoverable error and status(ready) right after it
EndsRecoverable(out) ==
    \E i \in 1..(Len(out) - 1) :
        /\ out[i].t = "error" /\ out[i].r
        /\ IsStatus(out[i + 1], "ready")
        /\ \A j \in 1..Len(out) : ~IsFatal(out[j])

\* The turn raised because generate_stream raised, on a live connection
LLMFailedTurn == pp.main = "raised" /\ pp.cause = "llm" /\ pp.alive

\* C6: when generation fails during a turn, the turn is aborted (no interviewer
\* transcript is sent, no reply is recorded), the client gets an error with
\* recoverable=true followed by status(ready), and the session state is intact:
\* it holds the candidate's message and is otherwise as it was before the turn.
C6_LLMFailureRecoverable ==
    LLMFailedTurn
        => /\ EndsRecoverable(pout)
           /\ \A i \in 1..Len(pout) : ~IsTranscript(pout[i], "interviewer")
           /\ pp.state = add_message(CallState, "candidate")

C6_Witness ==
    /\ LLMFailedTurn
    /\ pp.tokens > 0
    /\ \E i \in 1..Len(pout) : pout[i].t = "transcript_delta" /\ pout[i].a = "interviewer"

\* C7: the configured STT provider and the fallback are each called at most
\* once; when the configured provider fails the fallback is called exactly once;
\* the turn ends with the transcription error only when the fallback failed as
\* well (on a live connection: after the configured provider failed), that error
\* is recoverable and followed by status(ready), and the language model was not
\* invoked.
C7_STTFallbackOnce ==
    /\ pp.primary_calls <= 1
    /\ pp.fallback_calls <= 1
    /\ (pp.primary = "fail" /\ pp.main # "stt_fallback") => pp.fallback_calls = 1
    /\ (pp.main = "raised" /\ pp.cause = "stt")
           => /\ pp.fallback = "fail"
              /\ pp.alive => pp.primary = "fail"
    /\ pp.fallback = "fail"
           => /\ pp.main = "raised" /\ pp.cause = "stt"
              /\ pp.llm_calls = 0 /\ pp.llm = "idle"
              /\ pp.alive => EndsRecoverable(pout)

C7_Witness ==
    /\ pp.primary = "fail" /\ pp.fallback = "fail"
    /\ pp.primary_calls = 1 /\ pp.fallback_calls = 1
    /\ pp.main = "raised" /\ pp.alive

\* C8: a sentence that neither TTS provider synthesized does not end the
\* synthesis task: on a live connection the task never raises and the turn
\* raises only for a transcription or generation failure; when the task is done
\* every sentence the buffer produced was taken up for synthesis and the final
\* marker is the last audio message.
C8_SentenceFailureOmitsOnlyThatSentence ==
    /\ pp.failed_both \subseteq pp.attempted
    /\ pp.tts = "failed" => ~pp.alive
    /\ (pp.main = "raised" /\ pp.alive) => pp.cause \in {"stt", "llm"}
    /\ pp.tts = "done"
           => /\ pp.attempted = 1..pp.produced
              /\ \E i \in AudioIdx(pout) :
                    /\ pout[i].final
                    /\ \A j \in AudioIdx(pout) : j <= i

C8_Witness ==
    /\ pp.main = "returned"
    /\ 1 \in pp.failed_both
    /\ \E i \in AudioIdx(pout) : pout[i].snt = 2 /\ pout[i].data # ""

\* C9: sentences are taken up for synthesis in the order they were produced,
\* and every audio chunk of a sentence is forwarded before any chunk of a later
\* sentence.
C9_AudioInSentenceOrder ==
    /\ \E k \in 0..pp.produced : pp.attempted = 1..k
    /\ \A i, j \in AudioIdx(pout) :
           (i < j /\ pout[i].snt # 0 /\ pout[j].snt # 0) => pout[i].snt <= pout[j].snt

C9_Witness ==
    \E i, j \in AudioIdx(pout) : i < j /\ pout[i].snt = 1 /\ pout[j].snt = 2

\* C10: when a streaming turn completes, the sequence numbers of its audio_chunk
\* messages strictly increase, exactly one of them has is_final=true, that one
\* carries no data and comes after every other audio chunk, the chunks of the
\* flushed trailing sentence included.
C10_AudioChunkStream ==
    pp.main = "returned"
        => LET idx == AudioIdx(pout)
           IN /\ \A i, j \in idx : i < j => pout[i].n < pout[j].n
              /\ Cardinality({i \in idx : pout[i].final}) = 1
              /\ \A i \in idx :
                    pout[i].final => /\ pout[i].data = ""
                                     /\ \A j \in idx : j <= i
              /\ ~pp.pending
              /\ pp.flushed # 0 => pp.flushed \in pp.attempted

C10_Witness ==
    /\ pp.main = "returned"
    /\ pp.flushed # 0
    /\ \E i \in AudioIdx(pout) : pout[i].snt = pp.flushed
    /\ Cardinality(AudioIdx(pout)) >= 3

\* The transcription the turn went on with was empty or whitespace only
NoSpeech ==
    /\ pp.stt_text \in {"blank", "empty"}
    /\ pp.main \notin {"stt_primary", "stt_fallback", "batch_stt"}

\* C11: when the transcription is empty or whitespace only, the pipeline
\* (streaming and batch) returns at once with an empty transcript and an empty
\* response: the language model is not invoked, neither task is started and no
\* audio chunk reaches the client; on a live connection the streaming caller
\* reports EMPTY_TRANSCRIPTION as a recoverable error.
C11_BlankTranscriptShortCircuits ==
    NoSpeech
        => /\ pp.main \in {"early", "batch_returned"}
           /\ pp.llm_calls = 0 /\ pp.llm = "idle" /\ pp.tts = "idle"
           /\ pp.audio_chunks_sent = 0
           /\ AudioIdx(pout) = {}
           /\ pp.result.transcript = "" /\ pp.result.response_text = ""
           /\ pp.result.audio = ""
           /\ (pp.main = "early" /\ pp.alive)
                  => \E i \in 1..Len(pout) :
                        pout[i].t = "error" /\ pout[i].a = "EMPTY_TRANSCRIPTION" /\ pout[i].r

C11_Witness ==
    /\ NoSpeech
    /\ pp.stt_text = "blank"
    /\ pp.main = "early"
    /\ pp.alive

(***************************************************************************)
(* Properties of InterviewState                                            *)
(***************************************************************************)
\* C12: the numbers add_message returns on one InterviewState are 1, 2, 3, ...
\* in call order, whatever the roles and whatever else is called in between
\* (advance_phase, should_wrap_up, the bookkeeping of a handler turn).
C12_SequenceNumbersCount ==
    /\ \A i \in 1..Len(istate.returned) : istate.returned[i] = i
    /\ istate.s.sequence_number = Len(istate.returned)
    /\ Len(istate.s.conversation_history) = Len(istate.returned)

C12_Witness ==
    /\ Len(istate.returned) >= 3
    /\ istate.advances >= 1
    /\ istate.turns >= 1
    /\ \E i, j \in 1..Len(istate.s.conversation_history) :
          istate.s.conversation_history[i] # istate.s.conversation_history[j]

\* C13: over any sequence of advance_phase calls and handler turns, the position
\* of the phase in the order introduction .. completed never decreases.
C13_PhaseNeverRegresses ==
    [][PhaseIndex(istate'.s.phase) >= PhaseIndex(istate.s.phase)]_vars

\* C14: advance_phase moves one step along the phase order and stays at
\* completed: after n direct calls on a fresh state the phase is the
\* (n + 1)-th of the order, completed from the fifth call on.
C14_AdvancePhaseOneStep ==
    istate.turns = 0
        => istate.s.phase =
               phase_order[IF istate.advances + 1 < Len(phase_order)
                           THEN istate.advances + 1 ELSE Len(phase_order)]

C14_Witness ==
    /\ istate.turns = 0
    /\ istate.advances = 6
    /\ istate.s.phase = "completed"

\* C15: should_wrap_up returns true exactly when questions_asked >=
\* max_questions, and the call leaves the state, the phase included, as it was.
C15_ShouldWrapUpReportsOnly ==
    /\ [](istate.last = "should_wrap_up"
            => (istate.result <=> istate.s.questions_asked >= istate.s.max_questions))
    /\ [][istate'.last = "should_wrap_up" => istate'.s = istate.s]_vars

C15_Witness ==
    /\ istate.last = "should_wrap_up"
    /\ istate.result
    /\ istate.s.questions_asked = istate.s.max_questions
    /\ istate.s.phase = "main_questions"

(***************************************************************************)
(* Properties of the SessionManager                                        *)
(***************************************************************************)
\* The create_session calls so far were made with pairwise different UUIDs
DistinctIds ==
    \A i, j \in 1..Len(mgr.created) :
        i # j => ParseUUID(mgr.created[i].id) # ParseUUID(mgr.created[j].id)

\* No session ever created is older than the TTL
NoneExpired == \A r \in 1..Len(heap) : now - heap[r].started_at <= SESSION_TTL_MINUTES

\* C16: after MAX_SESSIONS + k creations with distinct ids (k > 0, no session
\* expired, none removed) the registry holds exactly MAX_SESSIONS sessions, and
\* the sessions no longer in it are exactly the k that were created first.
C16_OverflowEvictsCreatedFirst ==
    LET n == Len(mgr.created)
        k == n - MAX_SESSIONS
    IN (k > 0 /\ DistinctIds /\ NoneExpired /\ ~mgr.removed)
          => /\ Len(sessions) = MAX_SESSIONS
             /\ \A i \in 1..n : Registered(sessions, mgr.created[i].ref) <=> i > k

C16_Witness ==
    /\ Len(mgr.created) = MAX_SESSIONS + 2
    /\ DistinctIds /\ NoneExpired /\ ~mgr.removed
    /\ heap[1].started_at < heap[Len(heap)].started_at
    /\ ~Registered(sessions, 1) /\ ~Registered(sessions, 2)
    /\ Len(sessions) = MAX_SESSIONS

\* C17: get_session returns a session only if the registry holds it under the
\* id and it is not older than the TTL; a lookup that finds a session older
\* than the TTL returns none and leaves no entry under the id, and a lookup
\* that repeats it finds no entry and returns none again.
C17_ExpiredSessionNotReturned ==
    mgr.last.op = "get_session"
        => /\ mgr.last.ret # NoRef
                 => /\ mgr.last.had /\ ~mgr.last.stale
                    /\ StrUUID(heap[mgr.last.ret].session_id) = mgr.last.id
           /\ mgr.last.stale
                 => /\ mgr.last.ret = NoRef
                    /\ ~mgr.last.kept
                    /\ ~HasKey(sessions, mgr.last.id)
           /\ mgr.last.again => ~mgr.last.had /\ mgr.last.ret = NoRef

C17_Witness ==
    /\ mgr.last.op = "get_session"
    /\ mgr.last.again
    /\ mgr.last.ret = NoRef
    /\ \E r \in 1..Len(heap) :
          /\ StrUUID(heap[r].session_id) = mgr.last.id
          /\ now - heap[r].started_at = SESSION_TTL_MINUTES + 1

\* No two entries of the registry have the same key
UniqueKeys ==
    \A i, j \in 1..Len(sessions) : i # j => sessions[i].k # sessions[j].k

\* C18: in every order in which concurrently issued create_session,
\* get_session and remove_session calls execute, the registry holds at most
\* MAX_SESSIONS sessions; every create_session leaves its new state registered
\* under its id; and while no more than MAX_SESSIONS sessions were created,
\* with distinct ids, none removed and none expired, each of them is still
\* registered under its own id, with its own state.
C18_InterleavedCallsKeepRegistry ==
    /\ Len(sessions) <= MAX_SESSIONS
    /\ UniqueKeys
    /\ mgr.last.op = "create_session"
          => mgr.last.kept /\ RefOf(sessions, mgr.last.id) = mgr.last.ret
    /\ (Len(mgr.created) <= MAX_SESSIONS /\ DistinctIds /\ NoneExpired /\ ~mgr.removed)
          => \A i \in 1..Len(mgr.created) :
                 LET c == mgr.created[i]
                 IN /\ heap[c.ref].session_id = ParseUUID(c.id)
                    /\ RefOf(sessions, StrUUID(ParseUUID(c.id))) = c.ref

C18_Witness ==
    /\ Len(mgr.created) = MaxCreates
    /\ DistinctIds
    /\ mgr.removed
    /\ Len(sessions) = MAX_SESSIONS
    /\ mgr.last.op = "get_session"
    /\ mgr.last.ret # NoRef

(***************************************************************************)
(* Properties of connection set-up and of start_interview                  *)
(***************************************************************************)
\* The connection was refused with exactly one error, AUTH_FAILED or
\* INVALID_SESSION_ID, marked as not recoverable
RejectedWithError(c) ==
    /\ Len(conn[c].log) = 1
    /\ IsFatal(conn[c].log[1])
    /\ conn[c].log[1].a \in {"AUTH_FAILED", "INVALID_SESSION_ID"}

\* C19: a connection refused at connect time (invalid token supplied, or a
\* path id that is no UUID) has received the one error and nothing else, never
\* session_started; refusing it neither creates, fetches nor removes a session,
\* and nothing happens on the connection afterwards.
C19_RejectedConnectionTouchesNoSession ==
    /\ [](\A c \in Conns :
             conn[c].pc = "rejected"
                => /\ RejectedWithError(c)
                   /\ ~conn[c].accepted
                   /\ ~conn[c].removed
                   /\ conn[c].state = NoRef
                   /\ \/ conn[c].log[1].a = "AUTH_FAILED"
                      \/ ~_validate_session_id(conn[c].session_id))
    /\ [][\A c \in Conns :
             /\ (conn[c].pc # "rejected" /\ conn'[c].pc = "rejected")
                   => sessions' = sessions /\ heap' = heap
             /\ conn[c].pc = "rejected" => conn'[c] = conn[c]]_vars

C19_Witness ==
    \E c \in Conns :
        /\ conn[c].pc = "rejected"
        /\ conn[c].log = _ws_error_response("AUTH_FAILED", FALSE, FALSE)
        /\ _validate_session_id(conn[c].session_id)
        /\ sessions = <<>>

\* C20: the first start_interview of a connection stores the role, round and
\* mode it carries before the opening turn is generated; a later
\* start_interview sends nothing and leaves every session and the registry as
\* they were, whatever overrides it carries.
C20_StartInterviewOnce ==
    /\ [](\A c \in Conns :
             /\ (conn[c].pc = "si_llm" /\ conn[c].cur.ov = "all")
                   => /\ heap[conn[c].tstate].target_role = "role"
                      /\ heap[conn[c].tstate].current_round = 2
                      /\ heap[conn[c].tstate].interview_mode = "coding"
             /\ conn[c].cur.kind = "start_interview_again"
                   => conn[c].interview_started /\ conn[c].log = <<>>)
    /\ [][\A c \in Conns :
             (handled' # handled /\ conn'[c].cur.kind = "start_interview_again")
                => /\ heap' = heap
                   /\ sessions' = sessions
                   /\ conn'[c].pc = "loop"
                   /\ conn'[c].intro = conn[c].intro]_vars

C20_Witness ==
    \E c \in Conns :
        /\ conn[c].cur.kind = "start_interview_again"
        /\ conn[c].cur.ov = "all"
        /\ conn[c].intro = "ok"
        /\ heap[conn[c].state].target_role = None
        /\ heap[conn[c].state].current_round = 1
        /\ conn[c].log = <<>>

(***************************************************************************)
(* Properties of the receive loop                                          *)
(***************************************************************************)
\* C21: a message whose type no branch matches is answered with nothing and
\* changes neither the sessions nor the registry nor the handler's locals; the
\* handler is back at receive_text and handles the next message as usual.
C21_UnknownTypeIgnored ==
    /\ [](\A c \in Conns :
             conn[c].cur.kind = "unknown" => conn[c].log = <<>>)
    /\ [][\A c \in Conns :
             (handled' # handled /\ conn'[c].cur.kind = "unknown")
                => /\ heap' = heap
                   /\ sessions' = sessions
                   /\ conn'[c].pc = "loop"
                   /\ conn'[c] = [conn[c] EXCEPT !.cur = conn'[c].cur,
                                                 !.afterUnknown = conn'[c].afterUnknown,
                                                 !.log = <<>>,
                                                 !.afterFatal = conn'[c].afterFatal]]_vars

C21_Witness ==
    \E c \in Conns :
        /\ conn[c].afterUnknown
        /\ conn[c].cur.kind = "request_problem"
        /\ conn[c].log = <<Msg("problem", "problem")>>
        /\ heap[conn[c].state].current_problem = "problem"

\* The kinds a code_submission message ends up as: evaluated, or rejected by
\* one of the three validations
CodeSubmissionKinds == {"code_submission", "code_too_large", "invalid_language", "no_problem"}

\* The handler is handling, or has last handled, a code_submission of connection c
CodeSubmitted(c) == conn[c].cur.kind \in CodeSubmissionKinds

\* C22, as stated: a code_submission to a session without current_problem is
\* answered with NO_PROBLEM whatever its code length and language, and stores
\* neither the code nor the language.
C22_NoProblemWhateverPayload ==
    \A c \in Conns :
        (CodeSubmitted(c) /\ heap[conn[c].state].current_problem = None)
            => /\ conn[c].log = _ws_error_response("NO_PROBLEM", TRUE, TRUE)
               /\ heap[conn[c].state].submitted_code = None
               /\ heap[conn[c].state].submitted_language = None

\* C22, amended: a code_submission to a session without current_problem is
\* never stored and never evaluated; it is answered with NO_PROBLEM when its
\* code is within the length ceiling and its language is on the allow-list,
\* with CODE_TOO_LARGE when the code is longer, and otherwise with
\* INVALID_LANGUAGE.
C22_NoProblemAfterValidation ==
    \A c \in Conns :
        (CodeSubmitted(c) /\ heap[conn[c].state].current_problem = None)
            => /\ conn[c].log =
                     _ws_error_response(
                        IF conn[c].cur.size > MAX_CODE_LENGTH THEN "CODE_TOO_LARGE"
                        ELSE IF Lower(conn[c].cur.language) \notin ALLOWED_LANGUAGES
                             THEN "INVALID_LANGUAGE"
                        ELSE "NO_PROBLEM", TRUE, TRUE)
               /\ heap[conn[c].state].submitted_code = None
               /\ heap[conn[c].state].submitted_language = None
               /\ conn[c].pc # "code_eval"

C22_Witness ==
    \E c \in Conns :
        /\ CodeSubmitted(c)
        /\ heap[conn[c].state].current_problem = None
        /\ conn[c].cur.size = MAX_CODE_LENGTH
        /\ conn[c].cur.language = "Python"
        /\ conn[c].log = _ws_error_response("NO_PROBLEM", TRUE, TRUE)

\* The submission of connection c was answered with an error
CodeRejected(cr) == cr.cur.kind \in CodeSubmissionKinds /\ cr.log[1].t = "error"

\* C24: a code of exactly MAX_CODE_LENGTH characters is not rejected for its
\* size and one of MAX_CODE_LENGTH + 1 is rejected with CODE_TOO_LARGE; a code
\* within the ceiling in a language off the allow-list is rejected with
\* INVALID_LANGUAGE; a rejected submission leaves the session as it was and
\* the handler back at receive_text, without an evaluation.
C24_CodeSubmissionValidated ==
    /\ [](\A c \in Conns :
             CodeSubmitted(c)
                => /\ conn[c].cur.size > MAX_CODE_LENGTH
                         => conn[c].log = _ws_error_response("CODE_TOO_LARGE", TRUE, TRUE)
                   /\ conn[c].cur.size <= MAX_CODE_LENGTH
                         => conn[c].log[1].a # "CODE_TOO_LARGE"
                   /\ (/\ conn[c].cur.size <= MAX_CODE_LENGTH
                       /\ Lower(conn[c].cur.language) \notin ALLOWED_LANGUAGES)
                         => conn[c].log = _ws_error_response("INVALID_LANGUAGE", TRUE, TRUE))
    /\ [][\A c \in Conns :
             (handled' # handled /\ CodeRejected(conn'[c]))
                => /\ heap' = heap
                   /\ sessions' = sessions
                   /\ conn'[c].pc = "loop"]_vars

C24_Witness ==
    \E c \in Conns :
        /\ conn[c].cur.kind = "code_submission"
        /\ conn[c].cur.size = MAX_CODE_LENGTH
        /\ conn[c].pc = "code_eval"
        /\ heap[conn[c].state].submitted_code = "code"
        /\ heap[conn[c].state].submitted_language = "Python"

\* The handler is handling, or has last handled, an audio message of connection c
AudioReceived(c) == conn[c].cur.kind \in {"audio", "audio_too_large"}

\* C23: an audio message of exactly MAX_AUDIO_DATA_BYTES is handed to the
\* turn processor, which looks the session up and, having found it, announces
\* the transcription (and in batch mode awaits it); one of
\* MAX_AUDIO_DATA_BYTES + 1 is answered with AUDIO_TOO_LARGE only, no turn
\* processor runs, no transcription is attempted and the session and the
\* registry stay as they were.
C23_AudioCeiling ==
    /\ [](\A c \in Conns :
             AudioReceived(c)
                => /\ conn[c].cur.size > MAX_AUDIO_DATA_BYTES
                         => /\ conn[c].log = _ws_error_response("AUDIO_TOO_LARGE", TRUE, TRUE)
                            /\ conn[c].cur.stt = "-"
                            /\ ~conn[c].cur.found
                   /\ conn[c].cur.size <= MAX_AUDIO_DATA_BYTES
                         => /\ \A i \in 1..Len(conn[c].log) :
                                   conn[c].log[i].a # "AUDIO_TOO_LARGE"
                            /\ conn[c].cur.found
                                  => conn[c].log[1] \in
                                        {Msg("status", "processing_stt"),
                                         Msg("streaming_status", "transcribing")})
    /\ [][\A c \in Conns :
             (handled' # handled /\ AudioReceived(c)')
                => IF conn'[c].cur.size > MAX_AUDIO_DATA_BYTES
                   THEN heap' = heap /\ sessions' = sessions /\ conn'[c].pc = "loop"
                   ELSE (conn'[c].cur.found /\ ~streaming_enabled)
                            => conn'[c].pc = "stt"]_vars

C23_Witness ==
    \E c \in Conns :
        /\ conn[c].cur.kind = "audio"
        /\ conn[c].cur.size = MAX_AUDIO_DATA_BYTES
        /\ conn[c].cur.stt = "text"
        /\ conn[c].pc = "loop"
        /\ heap[conn[c].tstate].questions_asked >= 1

(***************************************************************************)
(* Properties of the SentenceBuffer (SentSpec)                             *)
(***************************************************************************)
\* The first two of the sentences the last add_token extracted, joined
MergedFirstTwo == Join(SubSeq(sb.sentences, 1, 2))

\* C25: add_token never returns a sentence shorter than min_chars, and when it
\* extracts a sentence shorter than min_chars followed by another one, and the
\* two joined reach min_chars, it returns the two joined.
C25_ShortSentenceMergedWithNext ==
    /\ \A i \in 1..Len(sb.out) : Len(sb.out[i]) >= streaming_sentence_min_chars
    /\ (/\ ~sb.ended
        /\ Len(sb.sentences) >= 2
        /\ Len(sb.sentences[1]) < streaming_sentence_min_chars
        /\ Len(MergedFirstTwo) >= streaming_sentence_min_chars)
          => sb.ret = MergedFirstTwo

\* C26: no sentence add_token returned ends with a known abbreviation, that is
\* at a terminator that an abbreviation immediately precedes.
C26_NoSentenceEndsAtAbbreviation ==
    \A i \in 1..Len(sb.out) : ~IsAbbreviation(sb.out[i])

\* "Dr. Smith went home."
DrSmithFirst == SubSeq(DrSmithText, 1, 20)

\* "He was tired."
DrSmithSecond == SubSeq(DrSmithText, 22, 34)

\* C27: however "Dr. Smith went home. He was tired." is cut into tokens,
\* add_token returns nothing but "Dr. Smith went home.", and once the stream
\* has ended the sentences yielded are exactly that one and "He was tired.".
C27_DrSmithTwoSentences ==
    sb.text = DrSmithText
       => /\ sb.out \in {<<>>, <<DrSmithFirst>>}
          /\ sb.ended => (sb.out = <<DrSmithFirst>> /\ sb.flushed = DrSmithSecond)

C27_Witness ==
    /\ sb.text = DrSmithText
    /\ sb.ended
    /\ sb.out = <<DrSmithFirst>>
    /\ sb.flushed = DrSmithSecond
    /\ sb.buffer = <<>>

(***************************************************************************)
(* Provider fallback on every turn path (PipeSpec)                         *)
(***************************************************************************)
\* The call ended with the error of a stage surfaced to its caller
Surfaced(cause) == pp.main \in {"raised", "batch_raised"} /\ pp.cause = cause

\* C28: in streaming and in batch mode alike, a transcription failure surfaces
\* only after the fallback provider was called once, and a synthesis failure
\* only for text that neither provider synthesized.
C28_ProviderFailureRetriedOnFallback ==
    /\ Surfaced("stt") => pp.fallback_calls = 1
    /\ Surfaced("tts") => pp.sentence \in pp.failed_both

(***************************************************************************)
(* Expiry and activity (Spec)                                              *)
(***************************************************************************)
\* Connection c handled a client message no more than the TTL ago
RecentlyActive(c) ==
    /\ conn[c].cur.kind # "-"
    /\ now - conn[c].cur.at <= SESSION_TTL_MINUTES

\* C29: a registered session whose connection handled a client message within
\* the last TTL minutes is still registered after the next message is handled,
\* and the audio turn that looks it up finds it; no step that is not the
\* receipt of a message takes a session out of the registry of a handler that
\* goes on.
C29_ActiveSessionNotExpired ==
    [][\A c \in Conns :
          /\ (/\ handled' # handled
              /\ RecentlyActive(c)
              /\ HasKey(sessions, conn[c].session_id)
              /\ conn'[c].pc # "done")
                => /\ HasKey(sessions', conn[c].session_id)
                   /\ conn'[c].cur.kind = "audio" => conn'[c].cur.found
          /\ (handled' = handled /\ conn'[c].pc \notin {"done", "rejected"})
                => (HasKey(sessions, conn[c].session_id)
                      => HasKey(sessions', conn[c].session_id))]_vars

(***************************************************************************)
(* The candidate background (Spec)                                         *)
(***************************************************************************)
\* The candidate background of a session: parsed_resume and resume_context
Background(s) == <<s.parsed_resume, s.resume_context>>

\* C30: a resume_context message handled after the interview has started, or
\* when the session already has a background, leaves the background as it is.
C30_BackgroundSetOnce ==
    [][\A c \in Conns :
          (/\ handled' # handled
           /\ conn'[c].cur.kind = "resume_context"
           /\ \/ conn[c].interview_started
              \/ Background(heap[conn[c].state]) # <<None, "">>)
             => Background(heap'[conn[c].state]) = Background(heap[conn[c].state])]_vars

(***************************************************************************)
(* The sentence queue (PipeSpec)                                           *)
(***************************************************************************)
\* The maxsize of `sentence_queue = asyncio.Queue()`: 0, which asyncio takes
\* for a queue without a capacity
sentence_queue_maxsize == 0

\* C32: the sentence queue has a capacity, and never holds more items than
\* that.
C32_SentenceQueueBounded ==
    /\ sentence_queue_maxsize > 0
    /\ Len(pp.sentence_queue) <= sentence_queue_maxsize

(***************************************************************************)
(* create_session: sweep, then capacity (RegSpec)                          *)
(***************************************************************************)
\* The entries of the registry whose session is not older than the TTL
LiveEntries(reg) ==
    {i \in 1..Len(reg) : ~_is_expired(heap[reg[i].ref], now)}

C34_AbortedTurnStopsSynthesis ==
    LLMFailedTurn
        => /\ pp.tts \in {"done", "failed"}
           /\ \A i \in AudioIdx(pout) : \A j \in 1..(i - 1) : pout[j].t # "error"

(***************************************************************************)
(* What a failed turn leaves behind (PipeSpec)                             *)
(***************************************************************************)
\* The fields of a session that a turn records into
TurnRecord(s) ==
    <<s.conversation_history, s.sequence_number, s.questions_asked, s.phase>>

\* C35: a streaming turn that ended with an error sent to the client (the
\* transcript was blank, or a stage raised) leaves conversation_history,
\* sequence_number, questions_asked and phase as they were when it began.
C35_ErrorTurnLeavesSession ==
    (pp.main \in {"early", "raised"} /\ pp.alive)
        => TurnRecord(pp.state) = TurnRecord(CallState)

\* C36: the audio forwarded for a sentence of a streaming turn comes from one
\* synthesis attempt: the fallback forwards audio for the sentence in hand only
\* if no audio of that sentence has been forwarded by the primary provider.
C36_OneSynthesisAttemptPerSentence ==
    [][(/\ pp.tts = "fallback"
        /\ Len(pout') = Len(pout) + 1
        /\ pout'[Len(pout')].t = "audio_chunk")
           => ~\E i \in AudioIdx(pout) : pout[i].snt = pp.sentence]_vars

\* C37: for every path session id the handler accepts, the key under which
\* create_session stores the session is the text the handler looks the session
\* up and removes it with: once the connection is accepted, that text leads to
\* the connection's session.
C37_StoredKeyIsPathText ==
    [][\A c \in Conns :
          (~conn[c].accepted /\ conn'[c].accepted)
              => RefOf(sessions', conn'[c].session_id) = conn'[c].state]_vars

\* The phase the claim gives for n recorded replies and max_questions m
PhaseAfterTurns(n, m) ==
    IF n = 0 THEN "introduction"
    ELSE IF n = 1 THEN "warmup"
    ELSE IF n < (IF m > 3 THEN m ELSE 3) THEN "main_questions"
    ELSE "wrap_up"

\* The state has been driven by turns of the handler only, from a session as
\* create_session makes it (no question asked yet)
ProtocolDriven ==
    /\ istate.advances = 0
    /\ istate.s.questions_asked = istate.turns

\* C39: driven by protocol messages only, the phase after n turns that recorded
\* an interviewer reply is introduction for n = 0, warmup for n = 1,
\* main_questions for 2 <= n < max(3, max_questions) and wrap_up from then on;
\* follow_up and completed are never reached.
C39_PhaseByTurnCount ==
    ProtocolDriven
        => /\ istate.s.phase = PhaseAfterTurns(istate.turns, istate.s.max_questions)
           /\ istate.s.phase \notin {"follow_up", "completed"}

C39_Witness ==
    /\ ProtocolDriven
    /\ istate.s.max_questions = DefaultMaxQuestions
    /\ istate.turns = DefaultMaxQuestions + 1
    /\ istate.s.phase = "wrap_up"
    /\ \E i \in 1..Len(istate.s.conversation_history) :
          istate.s.conversation_history[i] = "user"

\* text without its whitespace
Solid(text) == SelectSeq(text, LAMBDA ch : ch \notin Whitespace)

\* C40: the buffer neither loses, duplicates nor reorders text: once flush has
\* been called, the sentences add_token returned, in order, followed by what
\* flush returned are the tokens fed, up to whitespace; and after flush or
\* reset the buffer is empty.
C40_BufferKeepsText ==
    /\ (sb.ended \/ sb.dropped) => sb.buffer = <<>>
    /\ sb.ended => Solid(Join(sb.out) \o sb.flushed) = Solid(sb.text)

\* The handler of the connection is past the set-up and has not stopped
Open(c) == conn[c].accepted /\ conn[c].pc # "done"

\* C31: at most one open connection is bound to a given InterviewState.
C31_OneConnectionPerSession ==
    \A c, d \in Conns : (c # d /\ Open(c) /\ Open(d)) => conn[c].state # conn[d].state

\* C38: the closing of a connection never removes from the registry the session
\* another connection, still open, is bound to.
C38_CloseKeepsOthersSessions ==
    [][\A c, d \in Conns :
          (/\ c # d
           /\ Open(c) /\ conn'[c].pc = "done"
           /\ Open(d) /\ Registered(sessions, conn[d].state))
              => Registered(sessions', conn[d].state)]_vars

====
